---- MODULE Spec2Model ----
(***************************************************************************)
(* Model of the XRAI recommendation engine of XeroxYT-NTv3beta.            *)
(*                                                                         *)
(*  - the profile-rank feed: getXraiRecommendations (src/unnamed/part_000, *)
(*    lines 31-108) with buildUserProfile, extractKeywords and rankVideos  *)
(*    (same file, lines 159-283);                                          *)
(*  - the ratio-mix main feed: getXraiRecommendations (src/api/stream.js,  *)
(*    lines 153-229);                                                      *)
(*  - the short-form feed: getXraiShorts (src/api/stream.js, 232-313).     *)
(*                                                                         *)
(* A JavaScript string is a sequence of characters; a character is a       *)
(* one-letter TLA+ string.  The CJK characters of the recency strings are  *)
(* written as named atoms ("<nichi>" for U+65E5, ...), each one UTF-16     *)
(* code unit long as in the source.  Real numbers are fixed-point          *)
(* integers in units of 1/Scale.                                           *)
(***************************************************************************)
EXTENDS Integers, Sequences, FiniteSets, TLC

(***************************************************************************)
(* Characters and strings                                                  *)
(***************************************************************************)

Uppercase == <<"A","B","C","D","E","F","G","H","I","J","K","L","M",
               "N","O","P","Q","R","S","T","U","V","W","X","Y","Z">>
Lowercase == <<"a","b","c","d","e","f","g","h","i","j","k","l","m",
               "n","o","p","q","r","s","t","u","v","w","x","y","z">>

LowerOf ==
    [c \in {Uppercase[i] : i \in 1..Len(Uppercase)} |->
        Lowercase[CHOOSE i \in 1..Len(Uppercase) : Uppercase[i] = c]]

\* String.prototype.toLowerCase, character by character.
LowerChar(c) == IF c \in DOMAIN LowerOf THEN LowerOf[c] ELSE c

toLowerCase(s) == [i \in 1..Len(s) |-> LowerChar(s[i])]

\* String.prototype.includes: pat occurs in text as a contiguous substring
\* (the empty pattern occurs in every text).
includes(text, pat) ==
    \E i \in 0..(Len(text) - Len(pat)) : SubSeq(text, i + 1, i + Len(pat)) = pat

Digits == {"0","1","2","3","4","5","6","7","8","9"}

DigitValue(c) ==
    CASE c = "0" -> 0 [] c = "1" -> 1 [] c = "2" -> 2 [] c = "3" -> 3
      [] c = "4" -> 4 [] c = "5" -> 5 [] c = "6" -> 6 [] c = "7" -> 7
      [] c = "8" -> 8 [] c = "9" -> 9

\* The characters of the model's alphabet in the Unicode classes S, P, Z, C
\* (first replace of extractKeywords) or in the explicit bracket list
\* (second replace).
SeparatorChars ==
    {" ", "#", "!", "?", ",", ".", "(", ")", "[", "]", "-", "+", "|", ":",
     "<tab>", "<lbracket>", "<rbracket>", "<nakaguro>", "<touten>", "<kuten>"}

JAPANESE_STOP_WORDS ==
    { <<"<no>">>, <<"<ni>">>, <<"<ha>">>, <<"<wo>">>, <<"<ga>">>, <<"<de>">>,
      <<"<de>", "<su>">>, <<"<ma>", "<su>">>, <<"<ko>", "<to>">>,
      <<"<mo>", "<no>">>, <<"<ko>", "<re>">>, <<"<so>", "<re>">>,
      <<"<a>", "<re>">>, <<"<i>", "<ru>">>, <<"<su>", "<ru>">>,
      <<"<a>", "<ru>">>, <<"<na>", "<i>">>, <<"<ka>", "<ra>">>,
      <<"<ma>", "<de>">>, <<"<to>">>, <<"<mo>">>, <<"<ya>">>,
      <<"<na>", "<do>">>, <<"<sa>", "<n>">>, <<"<chi>", "<xya>", "<n>">> }

ENGLISH_STOP_WORDS ==
    { <<"a">>, <<"a","n">>, <<"t","h","e">>, <<"i","s">>, <<"a","r","e">>,
      <<"w","a","s">>, <<"w","e","r","e">>, <<"i","n">>, <<"o","n">>,
      <<"a","t">>, <<"t","o">>, <<"f","o","r">>, <<"o","f">>, <<"i","t">>,
      <<"y","o","u">>, <<"h","e">>, <<"s","h","e">>, <<"t","h","e","y">>,
      <<"w","e">>, <<"i">>, <<"a","n","d">>, <<"o","r">>, <<"b","u","t">>,
      <<"b","y">>, <<"w","i","t","h">> }

\* text.replace(/[\p{S}\p{P}\p{Z}\p{C}]/gu, ' ').replace(/[...]/g, ' ')
CleanText(text) ==
    [i \in 1..Len(text) |->
        IF LowerChar(text[i]) \in SeparatorChars THEN " " ELSE LowerChar(text[i])]

\* A loop reads the list it builds at every step, so that TLC evaluates
\* the list as it grows and not all at once when the loop has ended.
Evaluated(list) == Len(list) >= 0

\* cleanedText.split(/\s+/): the maximal runs of non-blank characters, in
\* order (the empty strings split() yields at the ends are dropped by the
\* length filter that follows).
RECURSIVE SplitFrom(_, _, _, _)
SplitFrom(text, i, word, acc) ==
    IF i > Len(text) \/ ~ Evaluated(acc)
    THEN IF word = <<>> THEN acc ELSE Append(acc, word)
    ELSE IF text[i] = " "
         THEN SplitFrom(text, i + 1, <<>>,
                        IF word = <<>> THEN acc ELSE Append(acc, word))
         ELSE SplitFrom(text, i + 1, Append(word, text[i]), acc)

Split(text) == SplitFrom(text, 1, <<>>, <<>>)

\* /^\d+$/.test(word)
IsNumeric(word) == word # <<>> /\ \A i \in 1..Len(word) : word[i] \in Digits

SelectSeqIdx(s, Keep(_)) ==
    LET RECURSIVE Go(_, _)
        Go(i, acc) == IF i > Len(s) \/ ~ Evaluated(acc) THEN acc
                      ELSE Go(i + 1, IF Keep(i) THEN Append(acc, s[i]) ELSE acc)
    IN Go(1, <<>>)

\* Array.from(new Set(xs)): first occurrences, in order.
Dedupe(xs) == SelectSeqIdx(xs, LAMBDA i : \A j \in 1..(i - 1) : xs[j] # xs[i])

IsKeyword(word) ==
    /\ Len(word) > 1
    /\ word \notin JAPANESE_STOP_WORDS
    /\ word \notin ENGLISH_STOP_WORDS
    /\ ~IsNumeric(word)

\* The value null where a string is expected (no string holds this atom).
Null == <<"<null>">>

\* Mutant: the words filtered as written and lower-cased last.
extractKeywords_LowerLast(text) ==
    IF text = Null \/ text = <<>> THEN <<>>
    ELSE LET raw == [i \in 1..Len(text) |->
                        IF text[i] \in SeparatorChars THEN " " ELSE text[i]]
             words == SelectSeq(Split(raw), IsKeyword)
         IN Dedupe([i \in 1..Len(words) |-> toLowerCase(words[i])])

\* extractKeywords: the deduplicated content tokens of text, in order of
\* first occurrence; [] when !text, that is for null and for ''.
extractKeywords(text) ==
    IF text = Null \/ text = <<>> THEN <<>>
    ELSE Dedupe(SelectSeq(Split(CleanText(text)), IsKeyword))

Range(s) == {s[i] : i \in 1..Len(s)}

(***************************************************************************)
(* Fixed-point arithmetic: a real r is the integer floor(r * Scale).       *)
(***************************************************************************)

Scale == 10 * 100

Max(a, b) == IF a >= b THEN a ELSE b
Min(a, b) == IF a <= b THEN a ELSE b

RECURSIVE Pow10(_)
Pow10(k) == IF k = 0 THEN 1 ELSE 10 * Pow10(k - 1)

RECURSIVE NumDigits(_)
NumDigits(n) == IF n < 10 THEN 1 ELSE 1 + NumDigits(n \div 10)

\* Binary digits of the fractional part of log10, by repeated squaring of
\* the mantissa y (Scale <= y < 10 * Scale).
RECURSIVE Log10Frac(_, _, _)
Log10Frac(y, bit, acc) ==
    IF bit = 0 THEN acc
    ELSE LET sq == (y * y) \div Scale
         IN IF sq >= 10 * Scale
            THEN Log10Frac(sq \div 10, bit \div 2, acc + bit)
            ELSE Log10Frac(sq, bit \div 2, acc)

\* Math.log10(n) for an integer n >= 1, in units of 1/Scale.
Log10(n) ==
    LET k == NumDigits(n) - 1
        y == IF k >= 3 THEN n \div Pow10(k - 3) ELSE n * Pow10(3 - k)
    IN k * Scale + Log10Frac(y, Scale \div 2, 0)

\* Math.exp(-i / 5) and Math.exp(-i / 10), in units of 1/Scale, for the
\* history positions the model reaches.
ExpFifth == <<1000, 819, 670, 549, 449, 368, 301, 247>>
ExpTenth == <<1000, 905, 819, 741, 670, 607, 549, 497>>

(***************************************************************************)
(* xrai: user profile                                                      *)
(***************************************************************************)

\* Map.get(kw) || 0 on a profile kept as a sequence of [kw, w] entries in
\* insertion order (a JavaScript Map iterates in insertion order).
ProfileHas(keywords, kw) == \E i \in 1..Len(keywords) : keywords[i].kw = kw

ProfileGet(keywords, kw) ==
    IF ProfileHas(keywords, kw)
    THEN keywords[CHOOSE i \in 1..Len(keywords) : keywords[i].kw = kw].w
    ELSE 0

\* keywords.set(kw, (keywords.get(kw) || 0) + weight)
ProfileAdd(keywords, kw, weight) ==
    IF ProfileHas(keywords, kw)
    THEN [i \in 1..Len(keywords) |->
            IF keywords[i].kw = kw
            THEN [kw |-> kw, w |-> keywords[i].w + weight]
            ELSE keywords[i]]
    ELSE Append(keywords, [kw |-> kw, w |-> weight])

RECURSIVE AddAll(_, _, _, _)
AddAll(keywords, kws, i, weight) ==
    IF i > Len(kws) \/ ~ Evaluated(keywords) THEN keywords
    ELSE AddAll(ProfileAdd(keywords, kws[i], weight), kws, i + 1, weight)

\* Mutant: every occurrence of a keyword in the text counted.
addKeywords_EveryOccurrence(keywords, text, weight) ==
    AddAll(keywords,
           IF text = Null \/ text = <<>> THEN <<>>
           ELSE SelectSeq(Split(CleanText(text)), IsKeyword),
           1, weight)

addKeywords(keywords, text, weight) ==
    AddAll(keywords, extractKeywords(text), 1, weight)

SearchWeight(index) == 3 * ExpFifth[index + 1]
WatchWeight(index) == 2 * ExpTenth[index + 1]

RECURSIVE AddSearches(_, _, _)
AddSearches(keywords, searchHistory, i) ==
    IF i > Len(searchHistory) \/ ~ Evaluated(keywords) THEN keywords
    ELSE AddSearches(addKeywords(keywords, searchHistory[i], SearchWeight(i - 1)),
                     searchHistory, i + 1)

RECURSIVE AddWatched(_, _, _)
AddWatched(keywords, watchHistory, i) ==
    IF i > Len(watchHistory) \/ ~ Evaluated(keywords) THEN keywords
    ELSE LET weight == WatchWeight(i - 1)
             video == watchHistory[i]
             k1 == addKeywords(keywords, video.title, weight)
             k2 == addKeywords(k1, video.channelName, (weight * 8) \div 10)
             k3 == addKeywords(k2, video.descriptionSnippet, weight \div 2)
         IN AddWatched(k3, watchHistory, i + 1)

RECURSIVE AddSubscribed(_, _, _)
AddSubscribed(keywords, subscribedChannels, i) ==
    IF i > Len(subscribedChannels) \/ ~ Evaluated(keywords) THEN keywords
    ELSE AddSubscribed(addKeywords(keywords, subscribedChannels[i].name,
                                   (3 * Scale) \div 2),
                       subscribedChannels, i + 1)

buildUserProfile(src) ==
    AddSubscribed(
        AddWatched(AddSearches(<<>>, src.searchHistory, 1), src.watchHistory, 1),
        src.subscribedChannels, 1)

(***************************************************************************)
(* xrai: scoring and ranking                                               *)
(***************************************************************************)

\* The digits of s, in order: s.replace(/[^0-9]/g, '').
DigitsOf(s) == SelectSeq(s, LAMBDA c : c \in Digits)

RECURSIVE ParseDigits(_, _, _)
ParseDigits(ds, i, acc) ==
    IF i > Len(ds) THEN acc ELSE ParseDigits(ds, i + 1, 10 * acc + DigitValue(ds[i]))

\* text.match(/(\d+)/): the first maximal run of digits, <<>> when none.
FirstDigitRun(text) ==
    IF \E i \in 1..Len(text) : text[i] \in Digits
    THEN LET a == CHOOSE i \in 1..Len(text) :
                    text[i] \in Digits /\ \A j \in 1..(i - 1) : text[j] \notin Digits
             b == CHOOSE j \in a..Len(text) :
                    /\ \A m \in a..j : text[m] \in Digits
                    /\ (j = Len(text) \/ text[j + 1] \notin Digits)
         IN SubSeq(text, a, b)
    ELSE <<>>

UNPARSEABLE == 999

parseUploadedAt(uploadedAt) ==
    IF uploadedAt = <<>> THEN UNPARSEABLE
    ELSE LET text == toLowerCase(uploadedAt)
             num == ParseDigits(FirstDigitRun(text), 1, 0)
         IN IF includes(text, <<"<fun>", "<mae>">>)
               \/ includes(text, <<"<ji>", "<kan>", "<mae>">>) THEN 0
            ELSE IF includes(text, <<"<nichi>", "<mae>">>) THEN num
            ELSE IF includes(text, <<"<shuu>", "<kan>", "<mae>">>) THEN num * 7
            ELSE IF includes(text, <<"<ka>", "<getsu>", "<mae>">>) THEN num * 30
            ELSE IF includes(text, <<"<nen>", "<mae>">>) THEN num * 365
            ELSE UNPARSEABLE

MAX_FROM_SAME_CHANNEL == 3

FullTextRank(video) ==
    toLowerCase(video.title \o <<" ">> \o video.channelName \o <<" ">>
                \o video.descriptionSnippet)

RECURSIVE SumWeights(_, _, _)
SumWeights(keywords, kws, i) ==
    IF i > Len(kws) THEN 0
    ELSE ProfileGet(keywords, kws[i]) + SumWeights(keywords, kws, i + 1)

relevanceScore(video, userProfile) ==
    SumWeights(userProfile, extractKeywords(FullTextRank(video)), 1)

popularityScore(video) ==
    LET ds == DigitsOf(video.views)
    IN IF ds = <<>> THEN 0 ELSE Log10(ParseDigits(ds, 1, 0) + 1)

\* Mutant: the bonus without its floor of 0.
freshnessScore_NoFloor(video) ==
    ((60 - parseUploadedAt(video.uploadedAt)) * 5 * Scale) \div 60

freshnessScore(video) ==
    (Max(0, 60 - parseUploadedAt(video.uploadedAt)) * 5 * Scale) \div 60

\* Mutant: the weights of relevance and popularity exchanged.
finalScore_WeightsExchanged(video, userProfile) ==
    (relevanceScore(video, userProfile) * 3) \div 10
    + (popularityScore(video) * 15) \div 10
    + freshnessScore(video)

finalScore(video, userProfile) ==
    (relevanceScore(video, userProfile) * 15) \div 10
    + (popularityScore(video) * 3) \div 10
    + freshnessScore(video)

\* The NG tests of the scoring loop (lines 240-241).
RankRejects(video, context) ==
    \/ \E n \in 1..Len(context.ngKeywords) :
          includes(FullTextRank(video), toLowerCase(context.ngKeywords[n]))
    \/ \E n \in 1..Len(context.ngChannels) :
          context.ngChannels[n] = video.channelId

\* The scoring loop (lines 232-265): the [video, score] entries pushed, in
\* candidate order.  An id of 0 stands for the empty (falsy) id.
RECURSIVE ScoreLoop(_, _, _, _, _, _)
ScoreLoop(videos, i, seenIds, scoredVideos, userProfile, context) ==
    IF i > Len(videos) \/ ~ Evaluated(scoredVideos) THEN scoredVideos
    ELSE LET video == videos[i]
         IN IF video.id = 0 \/ video.id \in seenIds \/ RankRejects(video, context)
            THEN ScoreLoop(videos, i + 1, seenIds, scoredVideos, userProfile, context)
            ELSE ScoreLoop(videos, i + 1, seenIds \cup {video.id},
                           Append(scoredVideos,
                                  [video |-> video,
                                   score |-> finalScore(video, userProfile)]),
                           userProfile, context)

\* Mutant: e inserted before the entries of its own score.
InsertByScore_BeforeTies(sorted, e) ==
    LET n == Cardinality({i \in 1..Len(sorted) : sorted[i].score > e.score})
    IN SubSeq(sorted, 1, n) \o <<e>> \o SubSeq(sorted, n + 1, Len(sorted))

\* Stable insertion of e into a list sorted by descending score: after every
\* entry whose score is not lower.
InsertByScore(sorted, e) ==
    LET n == Cardinality({i \in 1..Len(sorted) : sorted[i].score >= e.score})
    IN SubSeq(sorted, 1, n) \o <<e>> \o SubSeq(sorted, n + 1, Len(sorted))

\* scoredVideos.sort((a, b) => b.score - a.score): a stable sort.
RECURSIVE SortByScore(_, _, _)
SortByScore(scoredVideos, i, acc) ==
    IF i > Len(scoredVideos) \/ ~ Evaluated(acc) THEN acc
    ELSE SortByScore(scoredVideos, i + 1, InsertByScore(acc, scoredVideos[i]))

ChannelCount(list, channelId) ==
    Cardinality({i \in 1..Len(list) : list[i].channelId = channelId})

\* Mutant: a candidate admitted while its channel's count is at most the cap.
RECURSIVE Diversify_UpToCap(_, _, _)
Diversify_UpToCap(scoredVideos, i, finalRankedList) ==
    IF i > Len(scoredVideos) THEN finalRankedList
    ELSE LET video == scoredVideos[i].video
         IN Diversify_UpToCap(scoredVideos, i + 1,
                IF ChannelCount(finalRankedList, video.channelId) <= MAX_FROM_SAME_CHANNEL
                THEN Append(finalRankedList, video)
                ELSE finalRankedList)

\* The diversity walk (lines 270-280).
RECURSIVE Diversify(_, _, _)
Diversify(scoredVideos, i, finalRankedList) ==
    IF i > Len(scoredVideos) \/ ~ Evaluated(finalRankedList)
    THEN finalRankedList
    ELSE LET video == scoredVideos[i].video
         IN Diversify(scoredVideos, i + 1,
                IF ChannelCount(finalRankedList, video.channelId) < MAX_FROM_SAME_CHANNEL
                THEN Append(finalRankedList, video)
                ELSE finalRankedList)

rankVideos(videos, userProfile, context) ==
    LET seenIds == {context.watchHistory[i].id : i \in 1..Len(context.watchHistory)}
        scoredVideos == ScoreLoop(videos, 1, seenIds, <<>>, userProfile, context)
    IN Diversify(SortByScore(scoredVideos, 1, <<>>), 1, <<>>)

(***************************************************************************)
(* Helpers of the feed functions                                           *)
(***************************************************************************)

\* Bounds of the model.
MaxItems == 3          \* entries of the user state: watched, searched,
                       \* subscribed and shorts history together
NumSeeds == 2          \* seeds of the process-wide random source
BulkLen == 32          \* length of the trending list of the "bulk" catalog

\* Math.random(), as a level in 0..RandomLevels-1 standing for the value
\* level / RandomLevels: the n-th draw of the stream started by seed.
RandomLevels == 3
Random(seed, n) == (seed + n * (seed + 1)) % RandomLevels

Swap(a, i, j) ==
    [k \in 1..Len(a) |-> IF k = i THEN a[j] ELSE IF k = j THEN a[i] ELSE a[k]]

\* The loop of shuffleArray at index i (0-based as in the source);
\* n counts the draws taken from the stream so far.
RECURSIVE FisherYates(_, _, _, _)
FisherYates(newArray, i, seed, n) ==
    IF i <= 0 \/ ~ Evaluated(newArray) THEN newArray
    ELSE LET j == (Random(seed, n) * (i + 1)) \div RandomLevels
         IN FisherYates(Swap(newArray, i + 1, j + 1), i - 1, seed, n + 1)

\* shuffleArray(array) with the stream of seed, n draws already taken.
shuffleArray(array, seed, n) == FisherYates(array, Len(array) - 1, seed, n)

\* The number of draws one shuffleArray call takes.
Draws(array) == Max(0, Len(array) - 1)

\* Mutant: slice(0, n) that does not cut.
Slice_All(array, n) == array

\* array.slice(0, n)
Slice(array, n) == SubSeq(array, 1, Min(n, Len(array)))

RECURSIVE Flat(_, _)
Flat(lists, i) == IF i > Len(lists) THEN <<>> ELSE lists[i] \o Flat(lists, i + 1)

Closing(c) ==
    CASE c = "[" -> "]" [] c = "(" -> ")" [] c = "<lbracket>" -> "<rbracket>"
      [] OTHER -> ""

\* title.replace(/<lbracket>.*?<rbracket>|\[.*?\]|\(.*?\)/g, ''): every
\* bracketed segment, up to its first closing bracket, is removed.
RECURSIVE StripBrackets(_, _)
StripBrackets(s, i) ==
    IF i > Len(s) THEN <<>>
    ELSE IF Closing(s[i]) # "" /\ \E j \in (i + 1)..Len(s) : s[j] = Closing(s[i])
         THEN StripBrackets(s, 1 + CHOOSE j \in (i + 1)..Len(s) :
                                    /\ s[j] = Closing(s[i])
                                    /\ \A m \in (i + 1)..(j - 1) : s[m] # Closing(s[i]))
         ELSE <<s[i]>> \o StripBrackets(s, i + 1)

Blank(c) == c \in {" ", "<tab>"}

RECURSIVE Trim(_)
Trim(s) ==
    IF s = <<>> THEN s
    ELSE IF Blank(s[1]) THEN Trim(Tail(s))
    ELSE IF Blank(s[Len(s)]) THEN Trim(SubSeq(s, 1, Len(s) - 1))
    ELSE s

\* s.split(' '): the pieces between single blanks, empty pieces kept.
RECURSIVE SplitBlank(_, _, _, _)
SplitBlank(s, i, word, acc) ==
    IF i > Len(s) THEN Append(acc, word)
    ELSE IF s[i] = " " THEN SplitBlank(s, i + 1, <<>>, Append(acc, word))
    ELSE SplitBlank(s, i + 1, Append(word, s[i]), acc)

\* words.join(' ')
RECURSIVE Join(_, _)
Join(words, i) ==
    IF i > Len(words) THEN <<>>
    ELSE IF i = Len(words) THEN words[i]
    ELSE words[i] \o <<" ">> \o Join(words, i + 1)

cleanTitleForSearch(title) ==
    Join(Slice(SplitBlank(Trim(StripBrackets(title, 1)), 1, <<>>, <<>>), 4), 1)

(***************************************************************************)
(* Inputs: the videos, user states and catalog responses of the model      *)
(***************************************************************************)

RECURSIVE ToDigits(_)
ToDigits(n) ==
    LET d == <<"0","1","2","3","4","5","6","7","8","9">>[(n % 10) + 1]
    IN IF n < 10 THEN <<d>> ELSE Append(ToDigits(n \div 10), d)

DaysAgo(n) == ToDigits(n) \o <<"<nichi>", "<mae>">>

\* A Video; seconds is the value parseDuration(v.isoDuration, v.duration)
\* returns for it.
Video(id, title, channelId, channelName, views, uploadedAt, seconds) ==
    [id |-> id, title |-> title, channelId |-> channelId,
     channelName |-> channelName, views |-> views, uploadedAt |-> uploadedAt,
     descriptionSnippet |-> <<>>, seconds |-> seconds]

sAlpha == <<"A","l","p","h","a">>
sBeta == <<"B","e","t","a">>
sViews == <<"1",",","2","0","0"," ","v","i","e","w","s">>

A1 == Video(1, <<"M","u","s","i","c"," ","V","i","d","e","o">>, 10, sAlpha,
            <<"1",",","0","0","0",",","0","0","0">>, DaysAgo(2), 30)
A2 == Video(2, <<"m","u","s","i","c"," ","l","i","v","e">>, 10, sAlpha,
            sViews, DaysAgo(3), 45)
A3 == Video(3, <<"G","a","m","i","n","g"," ","n","e","w","s">>, 10, sAlpha,
            sViews, DaysAgo(40), 60)
A4 == Video(4, <<"V","l","o","g"," ","d","a","y">>, 10, sAlpha,
            <<"n","o"," ","v","i","e","w","s">>, <<"l","i","v","e">>, 20)
B1 == Video(5, <<"c","o","o","k","i","n","g"," ","s","h","o","w">>, 20, sBeta,
            sViews, <<"2","<shuu>","<kan>","<mae>">>, 15)
\* hidden by the strict exclusions
H1 == Video(13, <<"h","i","d","d","e","n"," ","g","e","m">>, 30, sBeta,
            sViews, DaysAgo(1), 30)
\* of the NG channel
N1 == Video(14, <<"p","l","a","i","n">>, 66, <<"N","o","p","e">>,
            sViews, DaysAgo(1), 30)
\* carries the NG keyword, in another case
K1 == Video(15, <<"T","o","t","a","l"," ","s","P","a","M"," ","h","e","r","e">>,
            40, sBeta, sViews, DaysAgo(1), 30)
\* penalised by the negative keywords: 1.5 + 1.0 > 2
P1 == Video(16, <<"c","l","i","c","k","b","a","i","t"," ","d","r","a","m","a">>,
            50, sBeta, sViews, DaysAgo(5), 30)
\* a long video, and a long video tagged #shorts
L1 == Video(17, <<"l","o","n","g"," ","t","a","l","k">>, 20, sBeta,
            sViews, DaysAgo(9), 600)
L2 == Video(18, <<"F","u","n"," ","#","S","h","o","r","t","s">>, 20, sBeta,
            sViews, DaysAgo(9), 600)

WatchTitles ==
    << <<"M","u","s","i","c"," ","V","i","d","e","o"," ","[","H","D","]">>,
       <<"(","l","i","v","e",")"," ","G","a","m","i","n","g"," ","n","e","w","s",
         " ","t","o","d","a","y"," ","e","x","t","r","a">>,
       <<"c","o","o","k","i","n","g">> >>

\* The i-th most recently watched video.
WatchVideo(i) ==
    Video(900 + i, WatchTitles[((i - 1) % Len(WatchTitles)) + 1], 10, sAlpha,
          sViews, DaysAgo(i), 30)

SearchTerms == << <<"M","u","s","i","c">>, <<"v","l","o","g"," ","1","2">> >>
SearchTerm(i) == SearchTerms[((i - 1) % Len(SearchTerms)) + 1]

ChannelNames == << sBeta, <<"G","a","m","m","a"," ","T","V">> >>
Channel(i) == [id |-> 20 * i, name |-> ChannelNames[((i - 1) % Len(ChannelNames)) + 1]]

Prefix(F(_), n) == [i \in 1..n |-> F(i)]

NoExclusions ==
    [ngKeywords |-> <<>>, ngChannels |-> <<>>, hiddenVideos |-> <<>>,
     negativeKeywords |-> <<>>]

StrictExclusions ==
    [ngKeywords |-> << <<"S","P","A","M">> >>,
     ngChannels |-> << [id |-> 66, name |-> <<"N","o","p","e">>] >>,
     hiddenVideos |-> << [id |-> 13] >>,
     negativeKeywords |->
        << [kw |-> <<"c","l","i","c","k","b","a","i","t">>, w |-> (3 * Scale) \div 2],
           [kw |-> <<"d","r","a","m","a">>, w |-> Scale] >>]

\* The NG keyword of every bulk video, in another case.
NoClips ==
    [ngKeywords |-> << <<"C","L","I","P">> >>, ngChannels |-> <<>>,
     hiddenVideos |-> <<>>, negativeKeywords |-> <<>>]

\* The catalogs the external service answers from, with the exclusions each
\* is run under.
Scenarios ==
    { <<"empty", "none">>, <<"small", "none">>, <<"small", "strict">>,
      <<"blocked", "strict">>, <<"bulk", "none">>, <<"bulk", "noclips">>,
      <<"malformed", "none">> }

\* The j-th video of the bulk payload of call k: all ids distinct, two
\* videos to a channel.
BulkVideo(k, j) ==
    Video(100 * k + j, <<"c","l","i","p">>, 100 * k + (j \div 2), sBeta,
          ToDigits(j * j * j), DaysAgo(j), 30)

\* The bulk payloads are longer than the caps and quotas they meet.
BulkSize(api) ==
    CASE api = "getRecommendedVideos" -> BulkLen
      [] api = "searchVideos" -> BulkLen \div 2
      [] api = "getVideoDetails" -> BulkLen \div 2
      [] api = "getChannelVideos" -> BulkLen \div 5

SmallPayload(api, k) ==
    CASE api = "getRecommendedVideos" -> <<A1, A2, A1, H1, A3, A4, N1, L2>>
      [] api = "searchVideos" -> <<A2, B1, K1, P1, L1, WatchVideo(1)>>
      [] api = "getVideoDetails" -> <<A1, B1, WatchVideo(1), A3, A4, A2, K1>>
      [] api = "getChannelVideos" -> <<B1, N1, L1>>

BlockedPayload(api, k) ==
    CASE api = "getRecommendedVideos" -> <<H1, N1, H1, K1>>
      [] api = "searchVideos" -> <<K1, N1>>
      [] api = "getVideoDetails" -> <<N1, K1>>
      [] api = "getChannelVideos" -> <<N1>>

\* What the k-th call issued answers when it succeeds: hasList is whether
\* the response carries its video list (res.videos, details.relatedVideos).
\* In the "malformed" catalog every odd call answers without one.
Response(world, api, k) ==
    LET videos == CASE world = "empty" -> <<>>
                    [] world = "small" -> SmallPayload(api, k)
                    [] world = "blocked" -> BlockedPayload(api, k)
                    [] world = "bulk" -> [j \in 1..BulkSize(api) |-> BulkVideo(k, j)]
                    [] world = "malformed" -> SmallPayload(api, k)
    IN [hasList |-> ~(world = "malformed" /\ k % 2 = 1),
        videos |-> videos,
        shorts |-> IF world = "small" /\ api = "searchVideos" THEN <<L2, A4>> ELSE <<>>]

(***************************************************************************)
(* Promises                                                                *)
(***************************************************************************)

\* JavaScript's undefined as an element of a list of videos.
Undefined == Video(-1, <<>>, -1, <<>>, <<>>, <<>>, 0)

\* A value that is a list, and the value undefined.
ListValue(list) == [defined |-> TRUE, list |-> list]
UndefinedValue == [defined |-> FALSE, list |-> <<>>]

\* Mutant: the chain without its catch, so a rejection of the call stays one.
ChainStatus_NoCatch(call) == call.status

\* The state of p.then(f).catch(() => []) given the state of the call p:
\* the handler of catch turns a rejection of p, and an exception of f, into
\* the value [], so the chain never rejects.
ChainStatus(call) == IF call.status = "pending" THEN "pending" ELSE "fulfilled"

\* Promise.all: rejects with the first rejection, fulfils when all did.
PromiseAll(statuses) ==
    IF \E i \in 1..Len(statuses) : statuses[i] = "rejected" THEN "rejected"
    ELSE IF \A i \in 1..Len(statuses) : statuses[i] = "fulfilled" THEN "fulfilled"
    ELSE "pending"

\* Mutant: a join that fulfils with the first promise that settles.
PromiseAllSettled_Any(statuses) ==
    IF \E i \in 1..Len(statuses) : statuses[i] # "pending" THEN "fulfilled"
    ELSE "pending"

\* Promise.allSettled: fulfils once no promise is pending, never rejects.
PromiseAllSettled(statuses) ==
    IF \A i \in 1..Len(statuses) : statuses[i] # "pending" THEN "fulfilled"
    ELSE "pending"

isShortVideo(v) ==
    \/ (v.seconds > 0 /\ v.seconds <= 60)
    \/ includes(toLowerCase(v.title), <<"#","s","h","o","r","t","s">>)

\* Mutant: the payloads of the profile-rank feed taken uncapped.
RankChainValue_Uncapped(world, call, k) ==
    LET res == Response(world, call.api, k)
    IN IF call.status = "fulfilled" /\ res.hasList
       THEN ListValue(res.videos)
       ELSE ListValue(<<>>)

\* The value of the chain of call k of the profile-rank feed
\* (part_000, lines 50-54, 65-69, 76-80, 86-90).
RankChainValue(world, call, k) ==
    LET res == Response(world, call.api, k)
        cap == CASE call.api = "getVideoDetails" -> 15
                 [] call.api = "searchVideos" -> 10
                 [] call.api = "getChannelVideos" -> 5
                 [] call.api = "getRecommendedVideos" -> 20
    IN IF call.status = "fulfilled" /\ res.hasList
       THEN ListValue(Slice(res.videos, cap))
       ELSE ListValue(<<>>)

\* The value of the chain of call k of the main feed (stream.js, lines 179,
\* 185): res.videos as it is, undefined included.
MainChainValue(world, call, k) ==
    LET res == Response(world, call.api, k)
    IN IF call.status = "fulfilled"
       THEN IF res.hasList THEN ListValue(res.videos) ELSE UndefinedValue
       ELSE ListValue(<<>>)

\* The value of the chain of call k of the short-form feed (stream.js,
\* lines 276, 288); filtering or spreading undefined throws into catch.
ShortsChainValue(world, call, k) ==
    LET res == Response(world, call.api, k)
        list == IF call.api = "searchVideos" THEN res.videos \o res.shorts
                ELSE res.videos
    IN IF call.status = "fulfilled" /\ res.hasList
       THEN ListValue(SelectSeq(list, isShortVideo))
       ELSE ListValue(<<>>)

\* personalizedResults.flat(): one level of lists is flattened, a value
\* that is no list stays as an element.
RECURSIVE FlatValues(_, _)
FlatValues(values, i) ==
    IF i > Len(values) THEN <<>>
    ELSE (IF values[i].defined THEN values[i].list ELSE <<Undefined>>)
         \o FlatValues(values, i + 1)

(***************************************************************************)
(* Ratio-mix feeds: the filters                                            *)
(***************************************************************************)

FullTextMix(v) == toLowerCase(v.title \o <<" ">> \o v.channelName)

NgKeywordHit(v, ngKeywords) ==
    \E n \in 1..Len(ngKeywords) : includes(FullTextMix(v), toLowerCase(ngKeywords[n]))

NgChannelHit(v, ngChannels) ==
    \E n \in 1..Len(ngChannels) : ngChannels[n].id = v.channelId

\* The negative score of v (stream.js, lines 203-209, 264-268): the
\* keywords of the title followed by those of the channel name.
negativeScore(v, negativeKeywords) ==
    SumWeights(negativeKeywords,
               extractKeywords(v.title) \o extractKeywords(v.channelName), 1)

\* Mutant: the NG-keyword test left out of the filters.
MixRejects_NoNgKeyword(v, src) ==
    \/ NgChannelHit(v, src.ngChannels)
    \/ negativeScore(v, src.negativeKeywords) > 2 * Scale

\* Mutant: the penalty threshold met by a sum equal to it.
MixRejects_AtThreshold(v, src) ==
    \/ NgKeywordHit(v, src.ngKeywords)
    \/ NgChannelHit(v, src.ngChannels)
    \/ negativeScore(v, src.negativeKeywords) >= 2 * Scale

\* The tests of both filters after the seen-id test.
MixRejects(v, src) ==
    \/ NgKeywordHit(v, src.ngKeywords)
    \/ NgChannelHit(v, src.ngChannels)
    \/ negativeScore(v, src.negativeKeywords) > 2 * Scale

\* filterAndDedupe of the main feed (stream.js, lines 192-214) from element
\* i on: [out, seenIds, threw]; reading v.id of undefined throws.
RECURSIVE filterAndDedupeMain(_, _, _, _, _)
filterAndDedupeMain(videos, i, out, seen, src) ==
    IF i > Len(videos) \/ ~ Evaluated(out)
    THEN [out |-> out, seenIds |-> seen, threw |-> FALSE]
    ELSE LET v == videos[i]
         IN IF v = Undefined THEN [out |-> out, seenIds |-> seen, threw |-> TRUE]
            ELSE IF v.id \in seen
                 THEN filterAndDedupeMain(videos, i + 1, out, seen, src)
                 ELSE filterAndDedupeMain(videos, i + 1,
                        IF MixRejects(v, src) THEN out ELSE Append(out, v),
                        seen \cup {v.id}, src)

\* filterAndDedupe of the short-form feed (stream.js, lines 256-274).
RECURSIVE filterAndDedupeShorts(_, _, _, _, _)
filterAndDedupeShorts(videos, i, out, seen, src) ==
    IF i > Len(videos) \/ ~ Evaluated(out)
    THEN [out |-> out, seenIds |-> seen, threw |-> FALSE]
    ELSE LET v == videos[i]
             historyIds == {src.shortsHistory[n].id : n \in 1..Len(src.shortsHistory)}
             hiddenVideoIdsSet == {src.hiddenVideos[n].id : n \in 1..Len(src.hiddenVideos)}
         IN IF v.id \in historyIds \/ v.id \in hiddenVideoIdsSet \/ v.id \in seen
               \/ MixRejects(v, src)
            THEN filterAndDedupeShorts(videos, i + 1, out, seen, src)
            ELSE filterAndDedupeShorts(videos, i + 1, Append(out, v),
                                       seen \cup {v.id}, src)

(***************************************************************************)
(* One pass of one feed function                                           *)
(***************************************************************************)

VARIABLES
    fn,                 \* the feed function called: "main", "shorts", "rank"
    world,              \* the catalog the external service answers from
    request,            \* what the caller passes: the lengths of its
                        \* histories and the exclusions it runs under
    pc,                 \* where the function stands
    calls,              \* the external calls issued so far, in issue order
    personalizedPool,   \* personalizedCandidates / personalizedShortsRaw
    popularPool,        \* trendingVideos / popularShortsRaw (a value)
    cleanPopular,       \* cleanTrending / cleanPopular
    cleanPersonalized,
    seenIds,
    allCandidates,      \* of the profile-rank feed
    result,             \* the promise the function returned
    op,                 \* a helper function called on its own: its name
    args,               \* its argument objects, as they are now
    given,              \* its arguments, as the caller passed them
    ret,                \* what it returned, once it has
    player,             \* the state of the VideoPlayerPage component
    fetches,            \* its fetchVideoData calls, in the order they began
    channel,            \* the state of the ChannelPage component
    loads               \* its fetchTabData calls, in the order they began

vars == <<fn, world, request, pc, calls, personalizedPool, popularPool,
          cleanPopular, cleanPersonalized, seenIds, allCandidates, result,
          op, args, given, ret, player, fetches, channel, loads>>

\* The variables of a single call of a helper function, which a pass of a
\* feed function leaves alone.
single == <<op, args, given, ret>>

\* The variables of the two pages, which the feed functions and their
\* helpers leave alone.
pages == <<player, fetches, channel, loads>>

\* A page that is not mounted.
Unmounted == [mounted |-> FALSE]
NoPages ==
    /\ player = Unmounted /\ fetches = <<>>
    /\ channel = Unmounted /\ loads = <<>>

NoArgs == [none |-> TRUE]
NotReturned == [returned |-> FALSE, value |-> <<>>]

ShortsHistoryList == <<A2, H1, B1>>
ShortsWatched(i) == ShortsHistoryList[((i - 1) % Len(ShortsHistoryList)) + 1]

Seeds == 0..(NumSeeds - 1)

Exclusions(name) ==
    CASE name = "none" -> NoExclusions
      [] name = "strict" -> StrictExclusions
      [] name = "noclips" -> NoClips

\* The argument of the call (RecommendationSource), which the pass only
\* reads: the histories are the most recent entries of the user state.
SourcesOf(f, req) ==
    LET excl == Exclusions(req.excl)
    IN [watchHistory |-> Prefix(WatchVideo, req.watch),
        searchHistory |-> Prefix(SearchTerm, req.search),
        subscribedChannels |-> Prefix(Channel, req.subs),
        shortsHistory |-> Prefix(ShortsWatched, req.shorts),
        ngKeywords |-> excl.ngKeywords,
        \* part_000 takes the ids (string[]), stream.js BlockedChannel[]
        ngChannels |-> IF f = "rank"
                       THEN [n \in 1..Len(excl.ngChannels) |-> excl.ngChannels[n].id]
                       ELSE excl.ngChannels,
        hiddenVideos |-> excl.hiddenVideos,
        negativeKeywords |-> excl.negativeKeywords]

sources == SourcesOf(fn, request)

\* The scenarios each function is run under.
ScenariosOf(f) ==
    CASE f = "shorts" -> Scenarios
      [] f = "main" -> Scenarios \ { <<"bulk", "noclips">> }
      [] f = "rank" -> Scenarios \ { <<"bulk", "noclips">>, <<"blocked", "strict">> }

\* The arguments the model calls each function with: user states of at
\* most MaxItems history entries in all, the fields a function does not
\* read left empty.
Inputs ==
    {inp \in [fn : {"main", "shorts", "rank"}, watch : 0..MaxItems,
              search : 0..MaxItems, subs : 0..MaxItems, shorts : 0..MaxItems] :
        /\ inp.watch + inp.search + inp.subs + inp.shorts <= MaxItems
        /\ inp.fn = "main" => inp.search = 0 /\ inp.shorts = 0
        /\ inp.fn = "shorts" => inp.search = 0 /\ inp.subs = 0
        /\ inp.fn = "rank" => inp.shorts = 0}

Init ==
    /\ \E inp \in Inputs :
       \E sc \in ScenariosOf(inp.fn) :
        /\ fn = inp.fn
        /\ world = sc[1]
        /\ request = [watch |-> inp.watch, search |-> inp.search,
                      subs |-> inp.subs, shorts |-> inp.shorts, excl |-> sc[2]]
    /\ pc = "start"
    /\ calls = <<>>
    /\ personalizedPool = <<>>
    /\ popularPool = ListValue(<<>>)
    /\ cleanPopular = <<>>
    /\ cleanPersonalized = <<>>
    /\ seenIds = {}
    /\ allCandidates = <<>>
    /\ result = [status |-> "pending", feed |-> <<>>]
    /\ op = "none" /\ args = NoArgs /\ given = NoArgs /\ ret = NotReturned
    /\ NoPages

Call(api, arg) == [api |-> api, arg |-> arg, status |-> "pending"]

ChainStatuses(cs) == [i \in 1..Len(cs) |-> ChainStatus(cs[i])]

Fulfil(feed) == [status |-> "fulfilled", feed |-> feed]
Reject == [status |-> "rejected", feed |-> <<>>]

\* An external call settles: the service answers, or the call fails.
Settle ==
    \E k \in 1..Len(calls), outcome \in {"fulfilled", "rejected"} :
        /\ calls[k].status = "pending"
        /\ calls' = [calls EXCEPT ![k].status = outcome]
        /\ UNCHANGED single
        /\ UNCHANGED pages
        /\ UNCHANGED <<fn, world, request, pc, personalizedPool, popularPool,
                       cleanPopular, cleanPersonalized, seenIds, allCandidates,
                       result>>

(***************************************************************************)
(* The ratio-mix main feed (stream.js, lines 153-229)                      *)
(***************************************************************************)

MAIN_TARGET_COUNT == 50
TRENDING_PERCENT == 40

MainSeeds(src, seed) ==
    IF Len(src.watchHistory) > 0
    THEN LET historySample == Slice(shuffleArray(src.watchHistory, seed, 0), 5)
         IN [i \in 1..Len(historySample) |->
                cleanTitleForSearch(historySample[i].title)
                \o <<" ","r","e","l","a","t","e","d">>]
    ELSE IF Len(src.subscribedChannels) > 0
    THEN LET subSample == Slice(shuffleArray(src.subscribedChannels, seed, 0), 3)
         IN [i \in 1..Len(subSample) |->
                subSample[i].name \o <<" ","v","i","d","e","o","s">>]
    ELSE << <<"M","u","s","i","c">>, <<"G","a","m","i","n","g">>, <<"V","l","o","g">> >>

\* Lines 166-181: the seeds are chosen and one search per seed is issued;
\* the function then awaits Promise.all of the search chains.
MainStart ==
    /\ fn = "main" /\ pc = "start"
    /\ \E seed \in Seeds :
        LET personalizedSeeds == MainSeeds(sources, seed)
        IN calls' = [i \in 1..Len(personalizedSeeds) |->
                        Call("searchVideos", personalizedSeeds[i])]
    /\ pc' = "awaitSearch"
    /\ UNCHANGED single
    /\ UNCHANGED pages
    /\ UNCHANGED <<fn, world, request, personalizedPool, popularPool,
                   cleanPopular, cleanPersonalized, seenIds, allCandidates, result>>

\* Lines 181-186: the searches are in; the trending call is issued and
\* awaited.
MainAfterSearch ==
    /\ fn = "main" /\ pc = "awaitSearch"
    /\ PromiseAll(ChainStatuses(calls)) # "pending"
    /\ IF PromiseAll(ChainStatuses(calls)) = "rejected"
       THEN /\ result' = Reject
            /\ pc' = "done"
            /\ UNCHANGED <<calls, personalizedPool>>
       ELSE /\ personalizedPool' =
                 FlatValues([k \in 1..Len(calls) |->
                                MainChainValue(world, calls[k], k)], 1)
            /\ calls' = Append(calls, Call("getRecommendedVideos", <<>>))
            /\ pc' = "awaitTrending"
            /\ UNCHANGED result
    /\ UNCHANGED single
    /\ UNCHANGED pages
    /\ UNCHANGED <<fn, world, request, popularPool, cleanPopular,
                   cleanPersonalized, seenIds, allCandidates>>

\* Lines 186-217: the trending list is in; both pools are filtered, the
\* trending pool first, against one seen-id set that starts as the hidden ids.
MainFilter ==
    /\ fn = "main" /\ pc = "awaitTrending"
    /\ ChainStatus(calls[Len(calls)]) = "fulfilled"
    /\ LET trendingVideos == MainChainValue(world, calls[Len(calls)], Len(calls))
           hiddenVideoIdsSet ==
               {sources.hiddenVideos[n].id : n \in 1..Len(sources.hiddenVideos)}
           t == filterAndDedupeMain(trendingVideos.list, 1, <<>>,
                                    hiddenVideoIdsSet, sources)
           p == filterAndDedupeMain(personalizedPool, 1, <<>>, t.seenIds, sources)
       IN /\ popularPool' = trendingVideos
          /\ IF ~trendingVideos.defined
             THEN /\ result' = Reject /\ pc' = "done"
                  /\ UNCHANGED <<cleanPopular, cleanPersonalized, seenIds>>
             ELSE IF t.threw \/ p.threw
             THEN /\ result' = Reject /\ pc' = "done"
                  /\ seenIds' = IF t.threw THEN t.seenIds ELSE p.seenIds
                  /\ cleanPopular' = IF t.threw THEN <<>> ELSE t.out
                  /\ UNCHANGED cleanPersonalized
             ELSE /\ cleanPopular' = t.out
                  /\ cleanPersonalized' = p.out
                  /\ seenIds' = p.seenIds
                  /\ pc' = "mix"
                  /\ UNCHANGED result
    /\ UNCHANGED single
    /\ UNCHANGED pages
    /\ UNCHANGED <<fn, world, request, calls, personalizedPool, allCandidates>>

\* Lines 219-228: the quotas, the three shuffles, the return.
MainMix ==
    /\ fn = "main" /\ pc = "mix"
    /\ \E seed \in Seeds :
        LET numTrending == (MAIN_TARGET_COUNT * TRENDING_PERCENT) \div 100
            numPersonalized == MAIN_TARGET_COUNT - numTrending
            finalTrending == Slice(shuffleArray(cleanPopular, seed, 0), numTrending)
            finalPersonalized ==
                Slice(shuffleArray(cleanPersonalized, seed, Draws(cleanPopular)),
                      numPersonalized)
            finalFeed == finalTrending \o finalPersonalized
        IN result' = Fulfil(shuffleArray(finalFeed, seed,
                                Draws(cleanPopular) + Draws(cleanPersonalized)))
    /\ pc' = "done"
    /\ UNCHANGED single
    /\ UNCHANGED pages
    /\ UNCHANGED <<fn, world, request, calls, personalizedPool, popularPool,
                   cleanPopular, cleanPersonalized, seenIds, allCandidates>>

(***************************************************************************)
(* The short-form feed (stream.js, lines 232-313)                          *)
(***************************************************************************)

SHORTS_TARGET_COUNT == 40
POPULAR_PERCENT == 75
FALLBACK_COUNT == 20

ShortsSeeds(src, seed) ==
    LET tag == <<" ","#","s","h","o","r","t","s">>
        from == IF Len(src.shortsHistory) > 0 THEN src.shortsHistory
                ELSE src.watchHistory
        sample == Slice(shuffleArray(from, seed, 0), 4)
    IN IF Len(from) > 0
       THEN [i \in 1..Len(sample) |-> cleanTitleForSearch(sample[i].title) \o tag]
       ELSE << <<"F","u","n","n","y">> \o tag, <<"G","a","m","i","n","g">> \o tag >>

\* Lines 276-294: the popular call, then one search per seed, are issued;
\* the function then awaits Promise.all of the popular chain and of
\* Promise.all of the search chains.
ShortsStart ==
    /\ fn = "shorts" /\ pc = "start"
    /\ \E seed \in Seeds :
        LET personalizedSeeds == ShortsSeeds(sources, seed)
        IN calls' = <<Call("getRecommendedVideos", <<>>)>>
                    \o [i \in 1..Len(personalizedSeeds) |->
                           Call("searchVideos", personalizedSeeds[i])]
    /\ pc' = "awaitAll"
    /\ UNCHANGED single
    /\ UNCHANGED pages
    /\ UNCHANGED <<fn, world, request, personalizedPool, popularPool,
                   cleanPopular, cleanPersonalized, seenIds, allCandidates, result>>

\* The state of Promise.all([popularPromise, Promise.all(personalizedPromises)]).
ShortsJoin(cs) ==
    PromiseAll(<<ChainStatus(cs[1]), PromiseAll(ChainStatuses(Tail(cs)))>>)

\* Lines 291-298: everything is in; both pools are filtered, the popular
\* pool first, against one seen-id set that starts empty.
ShortsFilter ==
    /\ fn = "shorts" /\ pc = "awaitAll"
    /\ ShortsJoin(calls) # "pending"
    /\ IF ShortsJoin(calls) = "rejected"
       THEN /\ result' = Reject /\ pc' = "done"
            /\ UNCHANGED <<personalizedPool, popularPool, cleanPopular,
                           cleanPersonalized, seenIds>>
       ELSE LET popularShortsRaw == ShortsChainValue(world, calls[1], 1)
                personalizedShortsRaw ==
                    FlatValues([k \in 1..(Len(calls) - 1) |->
                                   ShortsChainValue(world, calls[k + 1], k + 1)], 1)
                t == filterAndDedupeShorts(popularShortsRaw.list, 1, <<>>, {}, sources)
                p == filterAndDedupeShorts(personalizedShortsRaw, 1, <<>>,
                                           t.seenIds, sources)
            IN /\ popularPool' = popularShortsRaw
               /\ personalizedPool' = personalizedShortsRaw
               /\ cleanPopular' = t.out
               /\ cleanPersonalized' = p.out
               /\ seenIds' = p.seenIds
               /\ pc' = "mix"
               /\ UNCHANGED result
    /\ UNCHANGED single
    /\ UNCHANGED pages
    /\ UNCHANGED <<fn, world, request, calls, allCandidates>>

\* popularShortsRaw.filter(v => !historyIds.has(v.id)) of the fallback.
NotInHistory(raw, src) ==
    SelectSeq(raw, LAMBDA v :
        \A n \in 1..Len(src.shortsHistory) : src.shortsHistory[n].id # v.id)

\* Mutant: the mix returned even when it is empty.
ShortsFeed_NoFallback(popularShortsRaw, cleanPop, cleanPers, src, seed) ==
    LET numPopular == (SHORTS_TARGET_COUNT * POPULAR_PERCENT) \div 100
        numPersonalized == SHORTS_TARGET_COUNT - numPopular
        finalPopular == Slice(shuffleArray(cleanPop, seed, 0), numPopular)
        finalPersonalized ==
            Slice(shuffleArray(cleanPers, seed, Draws(cleanPop)), numPersonalized)
    IN shuffleArray(finalPopular \o finalPersonalized, seed,
                    Draws(cleanPop) + Draws(cleanPers))

\* Mutant: the personalized pool fills what the popular pool leaves of the
\* target count.
ShortsFeed_Refill(popularShortsRaw, cleanPop, cleanPers, src, seed) ==
    LET numPopular == (SHORTS_TARGET_COUNT * POPULAR_PERCENT) \div 100
        finalPopular == Slice(shuffleArray(cleanPop, seed, 0), numPopular)
        finalPersonalized ==
            Slice(shuffleArray(cleanPers, seed, Draws(cleanPop)),
                  SHORTS_TARGET_COUNT - Len(finalPopular))
        finalFeed == finalPopular \o finalPersonalized
        drawn == Draws(cleanPop) + Draws(cleanPers)
    IN IF Len(finalFeed) = 0
       THEN Slice(shuffleArray(NotInHistory(popularShortsRaw, src), seed, drawn),
                  FALLBACK_COUNT)
       ELSE shuffleArray(finalFeed, seed, drawn)

\* The feed of lines 300-312 for the stream of seed.
ShortsFeed(popularShortsRaw, cleanPop, cleanPers, src, seed) ==
    LET numPopular == (SHORTS_TARGET_COUNT * POPULAR_PERCENT) \div 100
        numPersonalized == SHORTS_TARGET_COUNT - numPopular
        finalPopular == Slice(shuffleArray(cleanPop, seed, 0), numPopular)
        finalPersonalized ==
            Slice(shuffleArray(cleanPers, seed, Draws(cleanPop)), numPersonalized)
        finalFeed == finalPopular \o finalPersonalized
        drawn == Draws(cleanPop) + Draws(cleanPers)
    IN IF Len(finalFeed) = 0
       THEN Slice(shuffleArray(NotInHistory(popularShortsRaw, src), seed, drawn),
                  FALLBACK_COUNT)
       ELSE shuffleArray(finalFeed, seed, drawn)

ShortsMix ==
    /\ fn = "shorts" /\ pc = "mix"
    /\ \E seed \in Seeds :
        result' = Fulfil(ShortsFeed(popularPool.list, cleanPopular,
                                    cleanPersonalized, sources, seed))
    /\ pc' = "done"
    /\ UNCHANGED single
    /\ UNCHANGED pages
    /\ UNCHANGED <<fn, world, request, calls, personalizedPool, popularPool,
                   cleanPopular, cleanPersonalized, seenIds, allCandidates>>

(***************************************************************************)
(* The profile-rank feed (part_000, lines 31-108)                          *)
(***************************************************************************)

RANK_LIMIT == 50
FALLBACK_BELOW == 3

\* Stable insertion into a list sorted by descending weight.
InsertByWeight(sorted, e) ==
    LET n == Cardinality({i \in 1..Len(sorted) : sorted[i].w >= e.w})
    IN SubSeq(sorted, 1, n) \o <<e>> \o SubSeq(sorted, n + 1, Len(sorted))

RECURSIVE SortByWeight(_, _, _)
SortByWeight(entries, i, acc) ==
    IF i > Len(entries) \/ ~ Evaluated(acc) THEN acc
    ELSE SortByWeight(entries, i + 1, InsertByWeight(acc, entries[i]))

\* Mutant: the first three keywords in insertion order.
topKeywords_Unsorted(userProfile) ==
    LET top == Slice(userProfile, 3)
    IN [i \in 1..Len(top) |-> top[i].kw]

\* Lines 59-62.
topKeywords(userProfile) ==
    LET top == Slice(SortByWeight(userProfile, 1, <<>>), 3)
    IN [i \in 1..Len(top) |-> top[i].kw]

\* Source A, lines 47-56.
RelatedCalls(src, seed) ==
    IF Len(src.watchHistory) > 0
    THEN LET recentVideos ==
                 Slice(shuffleArray(Slice(src.watchHistory, 5), seed, 0), 3)
         IN [i \in 1..Len(recentVideos) |->
                Call("getVideoDetails", ToDigits(recentVideos[i].id))]
    ELSE <<>>

\* Source B, lines 59-70.
SearchCalls(src) ==
    LET kws == topKeywords(buildUserProfile(src))
    IN [i \in 1..Len(kws) |-> Call("searchVideos", kws[i])]

\* Source C, lines 73-82.
ChannelCalls(src, seed) ==
    IF Len(src.subscribedChannels) > 0
    THEN LET drawn == IF Len(src.watchHistory) > 0
                      THEN Draws(Slice(src.watchHistory, 5)) ELSE 0
             randomSubs == Slice(shuffleArray(src.subscribedChannels, seed, drawn), 5)
         IN [i \in 1..Len(randomSubs) |->
                Call("getChannelVideos", ToDigits(randomSubs[i].id))]
    ELSE <<>>

\* Mutant: the fallback issued only when no call was issued at all.
FallbackCalls_OnlyWhenNone(candidatePromises) ==
    IF Len(candidatePromises) = 0
    THEN <<Call("getRecommendedVideos", <<>>)>>
    ELSE <<>>

\* Source D, lines 85-91.
FallbackCalls(candidatePromises) ==
    IF Len(candidatePromises) < FALLBACK_BELOW
    THEN <<Call("getRecommendedVideos", <<>>)>>
    ELSE <<>>

\* Lines 38-93: the profile is built and every call is issued; the function
\* then awaits Promise.allSettled of the chains.
RankStart ==
    /\ fn = "rank" /\ pc = "start"
    /\ \E seed \in Seeds :
        LET candidatePromises == RelatedCalls(sources, seed) \o SearchCalls(sources)
                                 \o ChannelCalls(sources, seed)
        IN calls' = candidatePromises \o FallbackCalls(candidatePromises)
    /\ pc' = "awaitAll"
    /\ UNCHANGED single
    /\ UNCHANGED pages
    /\ UNCHANGED <<fn, world, request, personalizedPool, popularPool,
                   cleanPopular, cleanPersonalized, seenIds, allCandidates, result>>

\* results.forEach (lines 94-99): the values of the fulfilled chains that
\* are arrays, concatenated in the order of the calls.
Collect(w, cs) ==
    Flat([k \in 1..Len(cs) |->
            IF ChainStatus(cs[k]) = "fulfilled" /\ RankChainValue(w, cs[k], k).defined
            THEN RankChainValue(w, cs[k], k).list
            ELSE <<>>], 1)

\* Lines 93-99.
RankFanIn ==
    /\ fn = "rank" /\ pc = "awaitAll"
    /\ PromiseAllSettled(ChainStatuses(calls)) = "fulfilled"
    /\ allCandidates' = Collect(world, calls)
    /\ pc' = "rank"
    /\ UNCHANGED single
    /\ UNCHANGED pages
    /\ UNCHANGED <<fn, world, request, calls, personalizedPool, popularPool,
                   cleanPopular, cleanPersonalized, seenIds, result>>

\* Mutant: the context passed without the watch history.
RankContext_NoHistory(src) ==
    [ngKeywords |-> src.ngKeywords, ngChannels |-> src.ngChannels,
     watchHistory |-> <<>>]

RankContext(src) ==
    [ngKeywords |-> src.ngKeywords, ngChannels |-> src.ngChannels,
     watchHistory |-> src.watchHistory]

\* Lines 101-107.
RankReturn ==
    /\ fn = "rank" /\ pc = "rank"
    /\ LET rankedVideos == rankVideos(allCandidates, buildUserProfile(sources),
                                      RankContext(sources))
       IN result' = Fulfil(Slice(rankedVideos, RANK_LIMIT))
    /\ pc' = "done"
    /\ UNCHANGED single
    /\ UNCHANGED pages
    /\ UNCHANGED <<fn, world, request, calls, personalizedPool, popularPool,
                   cleanPopular, cleanPersonalized, seenIds, allCandidates>>

Next ==
    \/ Settle
    \/ MainStart
    \/ MainAfterSearch
    \/ MainFilter
    \/ MainMix
    \/ ShortsStart
    \/ ShortsFilter
    \/ ShortsMix
    \/ RankStart
    \/ RankFanIn
    \/ RankReturn

Spec == Init /\ [][Next]_vars

(***************************************************************************)
(* Single calls of the helper functions                                    *)
(*                                                                         *)
(* extractKeywords, rankVideos, shuffleArray and the two filterAndDedupe   *)
(* called once each on arguments drawn from the sets below.  No feed       *)
(* function runs meanwhile.                                                *)
(***************************************************************************)

MaxText == 5           \* length of the texts given to extractKeywords
MaxRank == 2           \* candidates given to rankVideos
MaxDays == 62          \* largest day count of the recency strings
MaxCrowd == 5          \* candidates of the lists that meet the channel cap
MaxSignals == 2        \* entries of each history given to buildUserProfile
MaxPool == 2           \* length of the first pool given to filterAndDedupe

pass == <<fn, world, request, pc, calls, personalizedPool, popularPool,
          cleanPopular, cleanPersonalized, seenIds, allCandidates, result>>

\* No feed function is running.
NoPass ==
    /\ fn = "none" /\ world = "empty" /\ pc = "none"
    /\ request = [watch |-> 0, search |-> 0, subs |-> 0, shorts |-> 0,
                  excl |-> "none"]
    /\ calls = <<>>
    /\ personalizedPool = <<>>
    /\ popularPool = ListValue(<<>>)
    /\ cleanPopular = <<>>
    /\ cleanPersonalized = <<>>
    /\ seenIds = {}
    /\ allCandidates = <<>>
    /\ result = [status |-> "pending", feed |-> <<>>]

\* The sequences over S of length at most n.
SeqsUpTo(S, n) == UNION {[1..m -> S] : m \in 0..n}

\* --- the arguments ---

\* Texts: a capital, letters that spell a stop word ("an"), a digit, a
\* blank and a punctuation mark.
TextAlphabet == {"A", "n", "b", "1", " ", "#"}
Texts == SeqsUpTo(TextAlphabet, MaxText) \cup {Null}

sMusic == <<"m","u","s","i","c">>
sWeeks == <<"<shuu>","<kan>","<mae>">>
sMonths == <<"<ka>","<getsu>","<mae>">>
sYears == <<"<nen>","<mae>">>

\* Recency strings: every unit parseUploadedAt knows, and strings it cannot
\* read: empty, no unit and no digits, a unit without digits, digits
\* without a unit.
RecencyStrings ==
    {DaysAgo(n) : n \in 0..MaxDays}
    \cup {ToDigits(n) \o sWeeks : n \in 0..((MaxDays \div 7) + 1)}
    \cup {ToDigits(n) \o sMonths : n \in 0..3}
    \cup {ToDigits(n) \o sYears : n \in 0..1}
    \cup { <<"5","<fun>","<mae>">>, <<"3","<ji>","<kan>","<mae>">>,
           <<>>, <<"l","i","v","e">>, <<"<suu>","<nichi>","<mae>">>,
           <<"3"," ","d","a","y","s">> }

\* Candidates of rankVideos.
R1 == Video(21, sMusic \o <<" ","v","i","d","e","o">>, 10, sAlpha,
            <<"1",",","0","0","0",",","0","0","0">>, DaysAgo(2), 30)
\* one keyword in the title twice and in the channel name
R2 == Video(22, <<"M","u","s","i","c"," ">> \o sMusic, 11,
            <<"M","u","s","i","c"," ","T","V">>, <<"1","2">>, DaysAgo(40), 30)
\* a view string without digits, a recency string without digits or unit
R3 == Video(23, <<"p","l","a","i","n">>, 12, sBeta,
            <<"n","o"," ","v","i","e","w","s">>, <<"l","i","v","e">>, 30)
\* empty strings
R4 == Video(24, sMusic, 12, sBeta, <<>>, <<>>, 30)
\* a unit without digits
R5 == Video(25, <<"p","l","a","i","n">>, 13, sBeta, <<"7">>,
            <<"<suu>","<nichi>","<mae>">>, 30)
\* digits without a unit
R6 == Video(26, <<"p","l","a","i","n">>, 14, sBeta, <<"7">>,
            <<"3"," ","d","a","y","s">>, 30)
\* the id of R1 again, and the NG keyword
R7 == Video(21, <<"s","p","a","m"," ">> \o sMusic, 15, sBeta, <<"7">>,
            DaysAgo(1), 30)

\* the NG keyword in the description snippet only
R8 == [Video(28, <<"p","l","a","i","n">>, 13, sBeta, <<"7">>, DaysAgo(1), 30)
          EXCEPT !.descriptionSnippet = <<"T","o","t","a","l"," ","s","p","a","m">>]

RankCandidates == {R1, R2, R3, R4, R5, R6, R7, R8}

\* Two candidates that differ in their recency string only.
Aged(id, uploadedAt) ==
    Video(id, <<"p","l","a","i","n">>, 10 + id, sBeta, <<"7">>, uploadedAt, 30)

Profiles ==
    { <<>>,
      << [kw |-> sMusic, w |-> 5 * Scale] >>,
      << [kw |-> sMusic, w |-> 5 * Scale],
         [kw |-> <<"v","i","d","e","o">>, w |-> (12 * Scale) \div 10],
         [kw |-> <<"t","v">>, w |-> (7 * Scale) \div 10] >> }

Contexts ==
    { [ngKeywords |-> <<>>, ngChannels |-> <<>>, watchHistory |-> <<>>],
      [ngKeywords |-> << <<"S","P","A","M">> >>, ngChannels |-> <<14>>,
       watchHistory |-> <<R4>>] }

\* MaxCrowd candidates of two channels, of distinct ids, that differ in
\* their recency only: the ages rising, falling, or with ties.
Crowd(i, channelId, days) ==
    Video(40 + i, <<"p","l","a","i","n">>, channelId, sBeta, <<"7">>,
          DaysAgo(days), 30)

CrowdAges ==
    { [i \in 1..MaxCrowd |-> i],
      [i \in 1..MaxCrowd |-> MaxCrowd - i],
      [i \in 1..MaxCrowd |-> (3 * i) % 4] }

Crowds ==
    {[i \in 1..MaxCrowd |-> Crowd(i, ch[i], age[i])] :
        ch \in [1..MaxCrowd -> {40, 41}], age \in CrowdAges}

RankArgs ==
    {[videos |-> vs, userProfile |-> up, context |-> cx] :
        vs \in SeqsUpTo(RankCandidates, MaxRank) \ {<<>>},
        up \in Profiles, cx \in Contexts}
    \cup
    {[videos |-> vs, userProfile |-> <<>>,
      context |-> [ngKeywords |-> <<>>, ngChannels |-> <<>>,
                   watchHistory |-> <<>>]] : vs \in Crowds}
    \cup
    {[videos |-> <<Aged(31, u1), Aged(32, u2)>>, userProfile |-> <<>>,
      context |-> [ngKeywords |-> <<>>, ngChannels |-> <<>>,
                   watchHistory |-> <<>>]] :
        u1 \in RecencyStrings, u2 \in RecencyStrings}

\* Candidates of the filters.
F1 == Video(1, <<"p","l","a","i","n">>, 10, sAlpha, sViews, DaysAgo(1), 30)
\* the id of F1 again, and the NG keyword in the title
F2 == Video(1, <<"T","o","t","a","l"," ","s","P","a","M">>, 10, sAlpha, sViews,
            DaysAgo(1), 30)
\* one penalised keyword (1.5), in the title and in the channel name
F3 == Video(2, <<"C","l","i","c","k","b","a","i","t">>, 50,
            <<"c","l","i","c","k","b","a","i","t"," ","T","V">>, sViews,
            DaysAgo(1), 30)
\* two penalised keywords of 1.0 each
F4 == Video(3, <<"d","r","a","m","a"," ","s","t","o","r","y">>, 10, sAlpha,
            sViews, DaysAgo(1), 30)
\* in the shorts history
F5 == Video(5, <<"o","l","d"," ","c","l","i","p">>, 10, sAlpha, sViews,
            DaysAgo(1), 30)
\* the NG keyword in the channel name
F6 == Video(6, <<"p","l","a","i","n">>, 70, <<"S","p","a","m"," ","H","u","b">>,
            sViews, DaysAgo(1), 30)

FilterCandidates == {F1, F2, F3, F4, F5, F6, P1, N1, H1}

PenaltyExclusions ==
    [StrictExclusions EXCEPT
        !.negativeKeywords = @ \o << [kw |-> <<"s","t","o","r","y">>, w |-> Scale] >>]

FilterSources ==
    { [shortsHistory |-> <<>>] @@ NoExclusions,
      [shortsHistory |-> <<F5>>] @@ PenaltyExclusions }

FilterArgs ==
    {[popular |-> a, personalized |-> b, sources |-> src] :
        a \in SeqsUpTo(FilterCandidates, MaxPool),
        b \in SeqsUpTo(FilterCandidates, 1),
        src \in FilterSources}

\* Signals of buildUserProfile: a keyword twice in one text, the same
\* keyword in a title, a channel name and a description snippet, and texts
\* that share no keyword.
sNews == <<"n","e","w","s">>

ProfileTerms ==
    { sMusic, <<"M","u","s","i","c"," ">> \o sMusic, sNews \o <<" ","1","2">> }

ProfileVideos ==
    { [Video(51, sMusic \o <<" ">> \o sNews, 10, <<"M","u","s","i","c"," ","T","V">>,
             sViews, DaysAgo(1), 30) EXCEPT !.descriptionSnippet = sMusic],
      Video(52, <<"p","l","a","i","n">>, 11, sNews, sViews, DaysAgo(2), 30) }

ProfileChannels ==
    { [id |-> 20, name |-> <<"M","u","s","i","c"," ","T","V">>],
      [id |-> 40, name |-> sNews] }

ProfileArgs ==
    {[searchHistory |-> sh, watchHistory |-> wh, subscribedChannels |-> sc] :
        sh \in SeqsUpTo(ProfileTerms, MaxSignals),
        wh \in SeqsUpTo(ProfileVideos, MaxSignals),
        sc \in SeqsUpTo(ProfileChannels, MaxSignals)}

\* The raw pools getXraiShorts holds after its await (line 295): the pools
\* of the filters, and a popular pool longer than the fallback's slice whose
\* videos all carry the NG keyword, the first of them watched or not.
ShortsTailArgs ==
    FilterArgs
    \cup {[popular |-> [j \in 1..BulkLen |-> BulkVideo(1, j)],
           personalized |-> <<>>,
           sources |-> [shortsHistory |-> h] @@ NoClips] :
             h \in {<<>>, <<BulkVideo(1, 1)>>}}

SingleInit ==
    /\ NoPass
    /\ \/ \E t \in Texts : op = "extractKeywords" /\ args = [text |-> t]
       \/ \E a \in RankArgs : op = "rankVideos" /\ args = a
       \/ \E n \in 0..MaxItems :
              op = "shuffleArray" /\ args = [array |-> Prefix(WatchVideo, n)]
       \/ \E f \in {"filterMain", "filterShorts"}, a \in FilterArgs :
              op = f /\ args = a
       \/ \E a \in ShortsTailArgs : op = "shortsTail" /\ args = a
       \/ \E a \in ProfileArgs : op = "buildUserProfile" /\ args = a
    /\ given = args
    /\ ret = NotReturned
    /\ NoPages

\* --- the calls ---

Return(value) == [returned |-> TRUE, value |-> value]

CallExtractKeywords ==
    /\ op = "extractKeywords" /\ ~ret.returned
    /\ ret' = Return(extractKeywords(args.text))
    /\ UNCHANGED <<op, args, given>>
    /\ UNCHANGED pass
    /\ UNCHANGED pages

\* What rankVideos leaves in its argument videos: it reads it with for-of
\* (line 235) and sorts scoredVideos, an array of its own (232, 267).
VideosAfterRank(videos, userProfile, context) == videos

\* rankVideos; with the value returned, the scoredVideos it built (as
\* pushed, before the sort).
CallRankVideos ==
    /\ op = "rankVideos" /\ ~ret.returned
    /\ LET seen == {args.context.watchHistory[i].id :
                       i \in 1..Len(args.context.watchHistory)}
       IN ret' = [returned |-> TRUE,
                  value |-> rankVideos(args.videos, args.userProfile, args.context),
                  scoredVideos |-> ScoreLoop(args.videos, 1, seen, <<>>,
                                             args.userProfile, args.context)]
    /\ args' = [args EXCEPT
                  !.videos = VideosAfterRank(args.videos, args.userProfile,
                                             args.context)]
    /\ UNCHANGED <<op, given>>
    /\ UNCHANGED pass
    /\ UNCHANGED pages

\* Mutant: the swaps done in the argument itself.
ArrayAfterShuffle_InPlace(array, seed, n) == shuffleArray(array, seed, n)

\* What shuffleArray leaves in its argument: it swaps in newArray, a copy
\* (line 21 of part_000, line 141 of stream.js).
ArrayAfterShuffle(array, seed, n) == array

CallShuffleArray ==
    /\ op = "shuffleArray" /\ ~ret.returned
    /\ \E seed \in Seeds :
        /\ ret' = Return(shuffleArray(args.array, seed, 0))
        /\ args' = [args EXCEPT !.array = ArrayAfterShuffle(args.array, seed, 0)]
    /\ UNCHANGED <<op, given>>
    /\ UNCHANGED pass
    /\ UNCHANGED pages

\* Lines 189-217 of stream.js: the seen-id set starts as the hidden ids;
\* the trending pool is filtered first.
FilterPoolsMain(popular, personalized, src) ==
    LET hiddenVideoIdsSet == {src.hiddenVideos[n].id : n \in 1..Len(src.hiddenVideos)}
        t == filterAndDedupeMain(popular, 1, <<>>, hiddenVideoIdsSet, src)
        p == filterAndDedupeMain(personalized, 1, <<>>, t.seenIds, src)
    IN [cleanPopular |-> t.out, cleanPersonalized |-> p.out, seenIds |-> p.seenIds]

\* Lines 254-298 of stream.js: the seen-id set starts empty; the popular
\* pool is filtered first.
FilterPoolsShorts(popular, personalized, src) ==
    LET t == filterAndDedupeShorts(popular, 1, <<>>, {}, src)
        p == filterAndDedupeShorts(personalized, 1, <<>>, t.seenIds, src)
    IN [cleanPopular |-> t.out, cleanPersonalized |-> p.out, seenIds |-> p.seenIds]

CallFilterMain ==
    /\ op = "filterMain" /\ ~ret.returned
    /\ ret' = Return(FilterPoolsMain(args.popular, args.personalized, args.sources))
    /\ UNCHANGED <<op, args, given>>
    /\ UNCHANGED pass
    /\ UNCHANGED pages

CallFilterShorts ==
    /\ op = "filterShorts" /\ ~ret.returned
    /\ ret' = Return(FilterPoolsShorts(args.popular, args.personalized, args.sources))
    /\ UNCHANGED <<op, args, given>>
    /\ UNCHANGED pass
    /\ UNCHANGED pages

\* Lines 296-312 of stream.js: getXraiShorts from its raw pools on; with
\* the feed returned, the two filtered pools.
CallShortsTail ==
    /\ op = "shortsTail" /\ ~ret.returned
    /\ \E seed \in Seeds :
        LET clean == FilterPoolsShorts(args.popular, args.personalized, args.sources)
        IN ret' = [returned |-> TRUE,
                   value |-> ShortsFeed(args.popular, clean.cleanPopular,
                                        clean.cleanPersonalized, args.sources, seed),
                   cleanPopular |-> clean.cleanPopular,
                   cleanPersonalized |-> clean.cleanPersonalized]
    /\ UNCHANGED <<op, args, given>>
    /\ UNCHANGED pass
    /\ UNCHANGED pages

CallBuildUserProfile ==
    /\ op = "buildUserProfile" /\ ~ret.returned
    /\ ret' = Return(buildUserProfile(args))
    /\ UNCHANGED <<op, args, given>>
    /\ UNCHANGED pass
    /\ UNCHANGED pages

SingleNext ==
    \/ CallExtractKeywords
    \/ CallRankVideos
    \/ CallShuffleArray
    \/ CallFilterMain
    \/ CallFilterShorts
    \/ CallShortsTail
    \/ CallBuildUserProfile

SingleSpec == SingleInit /\ [][SingleNext]_vars

(***************************************************************************)
(* The video player page (VideoPlayerPage.tsx, lines 15-98)                *)
(*                                                                         *)
(* The route gives the component its videoId; an effect that depends on    *)
(* videoId runs fetchVideoData after every render in which videoId has     *)
(* changed.  fetchVideoData awaits the two requests together, so each call *)
(* is a step up to the await and a continuation after it.  The details and *)
(* the comments fetched for video x are written x; 0 is null, the empty    *)
(* list, and a route without a videoId.                                    *)
(***************************************************************************)

NumVideos == 2          \* the videos a route can name
MaxNavigations == 2     \* route changes of one run

VideoIds == 1..NumVideos
NoError == "<null>"

\* useState's initial values (lines 19-22); the effect has not run yet.
Mounted(v) ==
    [mounted |-> TRUE, videoId |-> v, effectFor |-> -1, navigations |-> 0,
     videoDetails |-> 0, comments |-> 0, isLoading |-> TRUE,
     error |-> NoError, addedToHistory |-> {}]

PlayerInit ==
    /\ NoPass
    /\ op = "none" /\ args = NoArgs /\ given = NoArgs /\ ret = NotReturned
    /\ channel = Unmounted /\ loads = <<>>
    /\ \E v \in VideoIds \cup {0} : player = Mounted(v)
    /\ fetches = <<>>

\* The effect of the last render is still to run.
EffectPending == player.effectFor # player.videoId

\* The route changes to another video: the component renders again with
\* the new videoId and keeps its state.
Navigate ==
    \E v \in VideoIds :
        /\ ~ EffectPending
        /\ player.navigations < MaxNavigations
        /\ v # player.videoId
        /\ player' = [player EXCEPT !.videoId = v,
                                    !.navigations = @ + 1]
        /\ UNCHANGED fetches
        /\ UNCHANGED <<channel, loads>>
        /\ UNCHANGED pass
        /\ UNCHANGED single

\* fetchVideoData up to its await: nothing without a videoId, else the
\* state is reset and both requests are sent.
RunEffect ==
    /\ EffectPending
    /\ IF player.videoId = 0
       THEN /\ player' = [player EXCEPT !.effectFor = player.videoId]
            /\ UNCHANGED fetches
       ELSE /\ player' = [player EXCEPT !.effectFor = player.videoId,
                                        !.isLoading = TRUE,
                                        !.error = NoError,
                                        !.videoDetails = 0,
                                        !.comments = 0]
            /\ fetches' = Append(fetches,
                                 [videoId |-> player.videoId,
                                  details |-> "pending",
                                  comments |-> "pending",
                                  resumed |-> FALSE])
    /\ UNCHANGED <<channel, loads>>
    /\ UNCHANGED pass
    /\ UNCHANGED single

\* Promise.all: rejected as soon as one request is, fulfilled once both are.
AllOf(f) ==
    IF f.details = "rejected" \/ f.comments = "rejected" THEN "rejected"
    ELSE IF f.details = "fulfilled" /\ f.comments = "fulfilled"
         THEN "fulfilled"
         ELSE "pending"

\* One of the two requests of a call is answered, or fails.
Answer ==
    \E k \in 1..Len(fetches), outcome \in {"fulfilled", "rejected"} :
        /\ \/ /\ fetches[k].details = "pending"
              /\ fetches' = [fetches EXCEPT ![k].details = outcome]
           \/ /\ fetches[k].comments = "pending"
              /\ fetches' = [fetches EXCEPT ![k].comments = outcome]
        /\ UNCHANGED player
        /\ UNCHANGED <<channel, loads>>
        /\ UNCHANGED pass
        /\ UNCHANGED single

\* What the continuation of call f stores.
Stored(p, f) ==
    IF AllOf(f) = "fulfilled"
    THEN [p EXCEPT !.videoDetails = f.videoId,
                   !.comments = f.videoId,
                   !.addedToHistory = @ \cup {f.videoId},
                   !.isLoading = FALSE]
    ELSE [p EXCEPT !.error = "failed", !.isLoading = FALSE]

\* fetchVideoData after its await, once the awaited promise has settled.
Resume ==
    \E k \in 1..Len(fetches) :
        /\ ~ fetches[k].resumed
        /\ AllOf(fetches[k]) # "pending"
        /\ player' = Stored(player, fetches[k])
        /\ fetches' = [fetches EXCEPT ![k].resumed = TRUE]
        /\ UNCHANGED <<channel, loads>>
        /\ UNCHANGED pass
        /\ UNCHANGED single

PlayerNext ==
    \/ Navigate
    \/ RunEffect
    \/ Answer
    \/ Resume

PlayerSpec == PlayerInit /\ [][PlayerNext]_vars

(***************************************************************************)
(* The channel page (part_002, lines 13-128)                               *)
(*                                                                         *)
(* The route's channelId is set and stays the same.  A state setter        *)
(* changes the component's state at once; the functions of the component   *)
(* (fetchTabData, handleLoadMore, the observer's callback) read the state  *)
(* of the render that created them, so the page keeps the state of its     *)
(* last render next to its current state.  Every dependency list names     *)
(* exactly what its function reads, so the functions of the last render    *)
(* are those the effect and the observer hold.  The videos of page p are   *)
(* written p; a page token is a page number, 0 is undefined and null.      *)
(***************************************************************************)

NumPages == 2           \* the pages of videos a channel has
MaxLoads == 5           \* requests of one run

\* What the functions created by a render of state c read.
Closure(c) ==
    [isLoading |-> c.isLoading, channelDetails |-> c.channelDetails,
     error |-> c.error, activeTab |-> c.activeTab, homeData |-> c.homeData,
     videosLength |-> Len(c.videos), videosPageToken |-> c.videosPageToken,
     isFetchingMore |-> c.isFetchingMore, isTabLoading |-> c.isTabLoading]

\* useState's initial values (lines 29-38).
Fresh ==
    [channelDetails |-> 0, isLoading |-> TRUE, error |-> NoError,
     activeTab |-> "home", homeData |-> 0, videos |-> <<>>,
     videosPageToken |-> 1, isFetchingMore |-> FALSE, isTabLoading |-> FALSE]

Load(tab, pageToken) ==
    [tab |-> tab, pageToken |-> pageToken, status |-> "pending",
     resumed |-> FALSE]

\* After the first render and its effects: loadInitialDetails (44-63) has
\* set the state it resets to the values it already had and awaits
\* getChannelDetails; the tab effect (107-115) saw isLoading and did nothing.
ChannelInit ==
    /\ NoPass
    /\ op = "none" /\ args = NoArgs /\ given = NoArgs /\ ret = NotReturned
    /\ player = Unmounted /\ fetches = <<>>
    /\ channel = [mounted |-> TRUE, rendered |-> Closure(Fresh)] @@ Fresh
    /\ loads = <<Load("details", 0)>>

\* fetchTabData (65-105) of the render "from", up to its await; it gives
\* the state and the requests it leaves.
fetchTabData(c, l, from, tab, pageToken) ==
    IF from.isFetchingMore /\ tab = "videos"
    THEN [channel |-> c, loads |-> l]
    ELSE LET started == IF pageToken \notin {0, 1}
                        THEN [c EXCEPT !.isFetchingMore = TRUE]
                        ELSE [c EXCEPT !.isTabLoading = TRUE]
         IN  IF tab = "home" /\ from.homeData # 0
             THEN [channel |-> [started EXCEPT !.isTabLoading = FALSE,
                                               !.isFetchingMore = FALSE],
                   loads |-> l]
             ELSE [channel |-> started,
                   loads |-> Append(l, Load(tab, pageToken))]

\* What the tab effect (107-115) depends on; fetchTabData changes with
\* isFetchingMore, homeData and channelDetails (105).
TabEffectDeps(r) ==
    <<r.activeTab, r.isLoading, r.isFetchingMore, r.homeData,
      r.channelDetails, r.videosLength>>

\* The tab effect of a render of state c.
TabEffect(c, l) ==
    LET from == Closure(c)
    IN  IF ~ from.isLoading /\ from.activeTab = "home" /\ from.homeData = 0
        THEN fetchTabData(c, l, from, "home", 0)
        ELSE IF ~ from.isLoading /\ from.activeTab = "videos"
                /\ from.videosLength = 0
             THEN fetchTabData(c, l, from, "videos", 1)
             ELSE [channel |-> c, loads |-> l]

\* State was set since the last render: the component renders again, and
\* the tab effect runs if one of its dependencies has changed.
Render ==
    /\ Closure(channel) # channel.rendered
    /\ LET now == [channel EXCEPT !.rendered = Closure(channel)]
           after == IF TabEffectDeps(now.rendered)
                       # TabEffectDeps(channel.rendered)
                    THEN TabEffect(now, loads)
                    ELSE [channel |-> now, loads |-> loads]
       IN  /\ channel' = after.channel
           /\ loads' = after.loads
    /\ UNCHANGED <<player, fetches>>
    /\ UNCHANGED pass
    /\ UNCHANGED single

\* The last render drew the page (126-128), not the loading or error text.
PageShown ==
    /\ ~ channel.rendered.isLoading
    /\ channel.rendered.channelDetails # 0

\* A click on a tab button (147-154).
SelectTab ==
    \E tab \in {"home", "videos"} :
        /\ PageShown
        /\ Len(loads) < MaxLoads
        /\ tab # channel.activeTab
        /\ channel' = [channel EXCEPT !.activeTab = tab]
        /\ UNCHANGED loads
        /\ UNCHANGED <<player, fetches>>
        /\ UNCHANGED pass
        /\ UNCHANGED single

\* The element that lastElementRef (124) is attached to is on the page.
\* The render that attaches it lies outside the file; it is taken to be
\* there at least while the videos tab shows a list that is not loading.
SentinelShown ==
    /\ PageShown
    /\ channel.rendered.activeTab = "videos"
    /\ channel.rendered.videosLength > 0
    /\ ~ channel.rendered.isTabLoading

\* handleLoadMore (117-122) of the render "from".
handleLoadMore(c, l, from) ==
    IF from.activeTab = "videos" /\ from.videosPageToken # 0
       /\ ~ from.isFetchingMore
    THEN fetchTabData(c, l, from, "videos", from.videosPageToken)
    ELSE [channel |-> c, loads |-> l]

\* The observer (13-25) reports that the last element has scrolled into
\* view; its callback is that of the last render.
Intersect ==
    /\ SentinelShown
    /\ Len(loads) < MaxLoads
    /\ LET from == channel.rendered
           after == IF from.videosPageToken # 0
                    THEN handleLoadMore(channel, loads, from)
                    ELSE [channel |-> channel, loads |-> loads]
       IN  /\ channel' = after.channel
           /\ loads' = after.loads
    /\ UNCHANGED <<player, fetches>>
    /\ UNCHANGED pass
    /\ UNCHANGED single

\* A request is answered, or fails.
Respond ==
    \E k \in 1..Len(loads), outcome \in {"fulfilled", "rejected"} :
        /\ loads[k].status = "pending"
        /\ loads' = [loads EXCEPT ![k].status = outcome]
        /\ UNCHANGED channel
        /\ UNCHANGED <<player, fetches>>
        /\ UNCHANGED pass
        /\ UNCHANGED single

\* getChannelVideos' nextPageToken for a page.
NextPageToken(pageToken) ==
    IF pageToken < NumPages THEN pageToken + 1 ELSE 0

\* The state after the continuation of request f: loadInitialDetails from
\* its await on (53-60), or fetchTabData from its await on (76-103).
Completed(c, f) ==
    IF f.tab = "details"
    THEN IF f.status = "fulfilled"
         THEN [c EXCEPT !.channelDetails = 1, !.isLoading = FALSE]
         ELSE [c EXCEPT !.error = "failed", !.isLoading = FALSE]
    ELSE LET done ==
                 IF f.tab = "home"
                 THEN IF f.status = "fulfilled"
                      THEN [c EXCEPT !.homeData = 1]
                      ELSE c
                 ELSE IF f.status = "fulfilled"
                      THEN [c EXCEPT
                               !.videos = IF f.pageToken \notin {0, 1}
                                          THEN Append(@, f.pageToken)
                                          ELSE <<f.pageToken>>,
                               !.videosPageToken =
                                   NextPageToken(f.pageToken)]
                      ELSE [c EXCEPT !.error = "failed"]
         IN  [done EXCEPT !.isTabLoading = FALSE, !.isFetchingMore = FALSE]

\* The function that awaits a settled request goes on to its end.
Complete ==
    \E k \in 1..Len(loads) :
        /\ loads[k].status # "pending"
        /\ ~ loads[k].resumed
        /\ channel' = Completed(channel, loads[k])
        /\ loads' = [loads EXCEPT ![k].resumed = TRUE]
        /\ UNCHANGED <<player, fetches>>
        /\ UNCHANGED pass
        /\ UNCHANGED single

ChannelNext ==
    \/ Render
    \/ SelectTab
    \/ Intersect
    \/ Respond
    \/ Complete

ChannelSpec == ChannelInit /\ [][ChannelNext]_vars

(***************************************************************************)
(* Properties                                                              *)
(***************************************************************************)

Returned == result.status = "fulfilled"
feed == result.feed

IdsOf(list) == {list[i].id : i \in 1..Len(list)}
HiddenIds == IdsOf(sources.hiddenVideos)
NgChannelIds == IdsOf(sources.ngChannels)

\* The lower-cased title+channelName text of v contains a lower-cased NG
\* keyword.
CarriesNgKeyword(v) ==
    \E n \in 1..Len(sources.ngKeywords) :
        includes(toLowerCase(v.title \o <<" ">> \o v.channelName),
                 toLowerCase(sources.ngKeywords[n]))

Excluded(v) ==
    v.id \in HiddenIds \/ v.channelId \in NgChannelIds \/ CarriesNgKeyword(v)

AllSettled == \A k \in 1..Len(calls) : calls[k].status # "pending"

CountApi(apis) == Cardinality({k \in 1..Len(calls) : calls[k].api \in apis})

\* C1: no video of the feed the ratio-mix main feed returns is hidden, of an
\* NG channel, or carries an NG keyword in its lower-cased title+channelName.
C1_MainFeedExcludes ==
    (fn = "main" /\ Returned) => \A i \in 1..Len(feed) : ~Excluded(feed[i])

\* The main feed returned a non-empty feed although the trending list held a
\* hidden video and a video of an NG channel and the search results a video
\* carrying an NG keyword.
C1_Witness ==
    /\ fn = "main" /\ Returned /\ Len(feed) > 0
    /\ \E i \in 1..Len(popularPool.list) : popularPool.list[i].id \in HiddenIds
    /\ \E i \in 1..Len(popularPool.list) :
          popularPool.list[i].channelId \in NgChannelIds
    /\ \E i \in 1..Len(personalizedPool) : CarriesNgKeyword(personalizedPool[i])

\* C2: no video the short-form feed returns, on any return path, is hidden,
\* of an NG channel, or carries an NG keyword.
C2_ShortsFeedExcludes ==
    (fn = "shorts" /\ Returned) => \A i \in 1..Len(feed) : ~Excluded(feed[i])

\* C3: in the feed of each feed function no channelId occurs more than 3
\* times.
C3_ChannelCap ==
    Returned => \A i \in 1..Len(feed) :
                    Cardinality({j \in 1..Len(feed) :
                                    feed[j].channelId = feed[i].channelId}) <= 3

\* C4: the feed of each feed function has pairwise distinct video ids.
C4_DistinctIds ==
    Returned => \A i, j \in 1..Len(feed) : feed[i].id = feed[j].id => i = j

\* C5: the feed is never longer than the target count: 50 for the main
\* feed, 40 for the short-form feed, 50 for the profile-rank feed.
C5_LengthBound ==
    Returned => Len(feed) <= (IF fn = "shorts" THEN 40 ELSE 50)

\* The main feed returned 50 videos from pools that both exceeded their
\* quotas.
C5_Witness ==
    /\ fn = "main" /\ Returned /\ Len(feed) = 50
    /\ Len(cleanPopular) > 20 /\ Len(cleanPersonalized) > 30

\* The cap of the payload of a call of the profile-rank feed.
PayloadCap(api) ==
    CASE api = "getVideoDetails" -> 15 [] api = "searchVideos" -> 10
      [] api = "getChannelVideos" -> 5 [] api = "getRecommendedVideos" -> 20

\* The capped payloads of calls k.. that succeeded, in issue order.
RECURSIVE SucceededPayloads(_)
SucceededPayloads(k) ==
    IF k > Len(calls) THEN <<>>
    ELSE LET r == Response(world, calls[k].api, k)
             n == PayloadCap(calls[k].api)
         IN (IF calls[k].status = "fulfilled" /\ r.hasList
             THEN [i \in 1..(IF Len(r.videos) < n THEN Len(r.videos) ELSE n) |->
                      r.videos[i]]
             ELSE <<>>)
            \o SucceededPayloads(k + 1)

\* C6: in the profile-rank feed the candidate list handed to rankVideos is
\* the concatenation, in issue order, of the capped payloads of the calls
\* that succeeded, whichever calls failed.
C6_CandidatesOfSucceeded ==
    (fn = "rank" /\ pc \in {"rank", "done"}) => allCandidates = SucceededPayloads(1)

\* The profile-rank feed collected candidates although the first call
\* failed, with a later call delivering more than its cap.
C6_Witness ==
    /\ fn = "rank" /\ pc = "rank" /\ Len(calls) >= 3
    /\ calls[1].status = "rejected"
    /\ \E k \in 2..Len(calls) :
          /\ calls[k].status = "fulfilled"
          /\ Len(Response(world, calls[k].api, k).videos) > PayloadCap(calls[k].api)
    /\ Len(allCandidates) > 0

\* The filter or rank stage has started: the function is past its joins, or
\* the seen-id set or a filtered pool has been written.
FilterStarted ==
    \/ pc \in {"mix", "rank"}
    \/ Returned
    \/ seenIds # {} \/ cleanPopular # <<>> \/ cleanPersonalized # <<>>
    \/ allCandidates # <<>>

\* C7: the filter/rank stage, and every access to the seen-id set, starts
\* only after every source call issued in the pass has settled.
C7_FilterAfterFanIn == FilterStarted => AllSettled

\* The filter stage ran after a pass in which one call failed and another
\* succeeded.
C7_Witness ==
    /\ pc = "mix" /\ seenIds # {}
    /\ \E k \in 1..Len(calls) : calls[k].status = "rejected"
    /\ \E k \in 1..Len(calls) : calls[k].status = "fulfilled"

\* C8: every source call of a pass is issued before any call of the pass has
\* settled: whenever a step issues a call, all calls issued before it are
\* still pending.
C8_IssuedBeforeAwait ==
    [][Len(calls') > Len(calls) =>
          \A k \in 1..Len(calls) : calls[k].status = "pending"]_vars

\* C9: the profile-rank feed issues the global-trending fetch exactly when
\* its three strategies issued fewer than 3 calls, and then once; with an
\* empty user state it is the only call.
C9_FallbackFetch ==
    (fn = "rank" /\ pc # "start") =>
        LET strategies == CountApi({"getVideoDetails", "searchVideos",
                                    "getChannelVideos"})
            trending == CountApi({"getRecommendedVideos"})
        IN /\ trending = (IF strategies < 3 THEN 1 ELSE 0)
           /\ (request.watch = 0 /\ request.search = 0 /\ request.subs = 0)
                 => (Len(calls) = 1 /\ calls[1].api = "getRecommendedVideos")

\* The strategies issued two calls and the trending fetch followed them.
C9_Witness ==
    /\ fn = "rank" /\ pc # "start" /\ Len(calls) = 3
    /\ calls[3].api = "getRecommendedVideos"
    /\ calls[1].api = "searchVideos" /\ calls[2].api = "getChannelVideos"

\* Every call of the pass failed or returned an empty list.
Starved ==
    \A k \in 1..Len(calls) :
        \/ calls[k].status = "rejected"
        \/ /\ calls[k].status = "fulfilled"
           /\ LET r == Response(world, calls[k].api, k)
              IN r.hasList /\ r.videos = <<>> /\ r.shorts = <<>>

\* C10: when every source call of the pass fails or returns an empty list,
\* the feed function does not reject, and what it returns is the empty feed.
C10_StarvationYieldsEmptyFeed ==
    Starved => /\ result.status # "rejected"
               /\ pc = "done" => (Returned /\ feed = <<>>)

\* A pass of several calls, some failed and some answered with an empty
\* list, returned the empty feed.
C10_Witness ==
    /\ pc = "done" /\ Starved /\ Returned /\ feed = <<>>
    /\ \E k \in 1..Len(calls) : calls[k].status = "rejected"
    /\ \E k \in 1..Len(calls) : calls[k].status = "fulfilled"

\* Call k settled with a response that carries no video list.
Malformed(k) ==
    calls[k].status = "fulfilled" /\ ~Response(world, calls[k].api, k).hasList

\* C11: a source call that completes with a response carrying no video
\* list contributes no candidate to its pool, and the feed function still
\* returns a feed instead of raising; in the main feed as in the others.
C11_MalformedPayloadIsolated ==
    (\E k \in 1..Len(calls) : Malformed(k)) =>
        /\ result.status # "rejected"
        /\ popularPool.defined
        /\ \A i \in 1..Len(personalizedPool) : personalizedPool[i] # Undefined

\* A single call of one of the two filters has returned.
Filtered == op \in {"filterMain", "filterShorts"} /\ ret.returned

\* The seen-id set a filter starts from, and the one it holds after it has
\* met candidate v with the set seen.
SeenAtStart ==
    IF op = "filterMain"
    THEN {given.sources.hiddenVideos[n].id : n \in 1..Len(given.sources.hiddenVideos)}
    ELSE {}

SeenAfter(v, seen) ==
    IF op = "filterMain"
    THEN filterAndDedupeMain(<<v>>, 1, <<>>, seen, given.sources).seenIds
    ELSE filterAndDedupeShorts(<<v>>, 1, <<>>, seen, given.sources).seenIds

RECURSIVE SeenThrough(_, _, _)
SeenThrough(videos, i, seen) ==
    IF i > Len(videos) THEN seen
    ELSE SeenThrough(videos, i + 1, SeenAfter(videos[i], seen))

\* The rejection conditions C12 lists, for candidate v met with the set seen.
C12_Listed(v, seen) ==
    LET src == given.sources
        text == toLowerCase(v.title \o <<" ">> \o v.channelName)
        penalty == SumWeights(src.negativeKeywords, extractKeywords(v.title), 1)
                   + SumWeights(src.negativeKeywords, extractKeywords(v.channelName), 1)
    IN \/ v.id \in seen
       \/ \E n \in 1..Len(src.hiddenVideos) : src.hiddenVideos[n].id = v.id
       \/ \E n \in 1..Len(src.ngKeywords) :
             includes(text, toLowerCase(src.ngKeywords[n]))
       \/ \E n \in 1..Len(src.ngChannels) : src.ngChannels[n].id = v.channelId
       \/ penalty > 2 * Scale

\* In the short-form feed: v is in the shorts history.
InShortsHistory(v) ==
    /\ op = "filterShorts"
    /\ \E n \in 1..Len(given.sources.shortsHistory) :
          given.sources.shortsHistory[n].id = v.id

\* The candidates of videos from i on that none of the conditions rejects.
RECURSIVE C12_Survivors(_, _, _, _)
C12_Survivors(videos, i, seen, withHistory) ==
    IF i > Len(videos) THEN <<>>
    ELSE LET v == videos[i]
             rejected == C12_Listed(v, seen) \/ (withHistory /\ InShortsHistory(v))
         IN (IF rejected THEN <<>> ELSE <<v>>)
            \o C12_Survivors(videos, i + 1, SeenAfter(v, seen), withHistory)

C12_SurvivesIff(withHistory) ==
    Filtered =>
        /\ ret.value.cleanPopular =
              C12_Survivors(given.popular, 1, SeenAtStart, withHistory)
        /\ ret.value.cleanPersonalized =
              C12_Survivors(given.personalized, 1,
                            SeenThrough(given.popular, 1, SeenAtStart), withHistory)

\* C12, as stated: in both ratio-mix feeds a candidate survives
\* filterAndDedupe if and only if its id is neither seen nor hidden, its
\* title+channelName text holds no NG keyword (case-insensitively), its
\* channel is no NG channel, and its penalty sum is not above 2.0.
C12_SurvivesIffListed == C12_SurvivesIff(FALSE)

\* C12, amended: ... if and only if none of the listed conditions holds and,
\* in the short-form feed, its id is not in the shorts history.
C12_SurvivesIffListedOrHistory == C12_SurvivesIff(TRUE)

\* The short-form filter dropped a candidate of the shorts history from a
\* pool and kept one whose penalty sum is exactly 2.0.
C12_Witness ==
    /\ Filtered /\ op = "filterShorts"
    /\ given.popular = <<F5, F4>>
    /\ given.sources.negativeKeywords # <<>>
    /\ ret.value.cleanPopular = <<F4>>

\* A single call of rankVideos has returned.
Ranked == op = "rankVideos" /\ ret.returned

Abs(x) == IF x < 0 THEN -x ELSE x

\* The sum of the weights of the profile entries from i on whose keyword is
\* in kws.
RECURSIVE C13_SumOver(_, _, _)
C13_SumOver(profile, i, kws) ==
    IF i > Len(profile) THEN 0
    ELSE (IF profile[i].kw \in kws THEN profile[i].w ELSE 0)
         + C13_SumOver(profile, i + 1, kws)

\* The distinct keywords of a candidate: those of its title, of its channel
\* name and of its description snippet.
C13_Keywords(video) ==
    Range(extractKeywords(video.title))
    \cup Range(extractKeywords(video.channelName))
    \cup Range(extractKeywords(video.descriptionSnippet))

\* log10 of the view counts + 1 of the candidates, to three decimals.
C13_Log10(n) ==
    CASE n = 1000001 -> 6000 [] n = 13 -> 1114 [] n = 8 -> 903

\* 1.5 * relevance + 0.3 * popularity + 1.0 * freshness.
C13_Score(video, profile) ==
    LET relevance == C13_SumOver(profile, 1, C13_Keywords(video))
        viewCount == ParseDigits(DigitsOf(video.views), 1, 0)
        popularity == C13_Log10(viewCount + 1)
        daysAgo == parseUploadedAt(video.uploadedAt)
        freshness == Max(0, Scale - (daysAgo * Scale) \div 60) * 5
    IN (15 * relevance) \div 10 + (3 * popularity) \div 10 + freshness

\* C13: every surviving candidate is scored 1.5 * relevance + 0.3 *
\* popularity + 1.0 * freshness, with relevance the sum of the profile
\* weights of its distinct keywords, popularity log10(viewCount + 1) and
\* freshness max(0, 1 - daysAgo/60) * 5; for the profile {music: 5.0} the
\* candidate "music video" with 1,000,000 views of 2 days ago scores about
\* 14.13.  (Scores agree to 0.005, the example to 0.01.)
C13_ScoreFormula ==
    Ranked =>
        \A i \in 1..Len(ret.scoredVideos) :
            LET e == ret.scoredVideos[i]
            IN /\ DigitsOf(e.video.views) # <<>> =>
                     Abs(e.score - C13_Score(e.video, given.userProfile))
                        <= Scale \div 200
               /\ (e.video = R1 /\ given.userProfile = << [kw |-> sMusic, w |-> 5 * Scale] >>)
                     => Abs(e.score - (1413 * Scale) \div 100) <= Scale \div 100

\* rankVideos scored the example candidate under the example profile.
C13_Witness ==
    /\ Ranked
    /\ given.userProfile = << [kw |-> sMusic, w |-> 5 * Scale] >>
    /\ given.videos = <<R1, R2>>
    /\ Len(ret.scoredVideos) = 2
    /\ ret.scoredVideos[1].video = R1
    /\ ret.scoredVideos[1].score > 14 * Scale

\* C14: the freshness sub-score is never negative, is 0 from 60 days on, and
\* strictly decreases with daysAgo up to 60 days: of two scored candidates
\* the fresher has the higher freshness and, when they differ in nothing
\* else that is scored, the higher score ("3 days ago" above "40 days ago").
C14_FreshnessDecay ==
    (Ranked /\ Len(ret.scoredVideos) = 2) =>
        LET e1 == ret.scoredVideos[1]
            e2 == ret.scoredVideos[2]
            d1 == parseUploadedAt(e1.video.uploadedAt)
            d2 == parseUploadedAt(e2.video.uploadedAt)
            f1 == freshnessScore(e1.video)
            f2 == freshnessScore(e2.video)
        IN /\ f1 >= 0 /\ f2 >= 0
           /\ d1 >= 60 => f1 = 0
           /\ d2 >= 60 => f2 = 0
           /\ (d1 < d2 /\ d2 <= 60) => f1 > f2
           /\ (d1 < d2 /\ d2 <= 60 /\ given.userProfile = <<>>
               /\ e1.video.views = e2.video.views) => e1.score > e2.score

\* rankVideos scored a candidate of 3 days ago above one of 40 days ago that
\* is otherwise the same.
C14_Witness ==
    /\ Ranked
    /\ given.videos = <<Aged(31, DaysAgo(40)), Aged(32, DaysAgo(3))>>
    /\ ret.value = <<Aged(32, DaysAgo(3)), Aged(31, DaysAgo(40))>>

\* The recency string names one of the units the engine reads.
HasUnit(uploadedAt) ==
    \E unit \in { <<"<fun>","<mae>">>, <<"<ji>","<kan>","<mae>">>,
                  <<"<nichi>","<mae>">>, sWeeks, sMonths, sYears } :
        includes(toLowerCase(uploadedAt), unit)

\* No day count can be read from the recency string.
NoDayCount(uploadedAt) == DigitsOf(uploadedAt) = <<>> \/ ~HasUnit(uploadedAt)

\* C15: a view string without digits gives popularity 0; a recency string
\* without digits or without a recognised unit gives the sentinel and so
\* freshness 0; and such a candidate, met alone and not excluded, is still
\* scored and returned.
C15_ParseFailuresNeutral ==
    Ranked =>
        \A i \in 1..Len(given.videos) :
            LET v == given.videos[i]
            IN /\ DigitsOf(v.views) = <<>> => popularityScore(v) = 0
               /\ NoDayCount(v.uploadedAt) =>
                     /\ parseUploadedAt(v.uploadedAt) = UNPARSEABLE
                     /\ freshnessScore(v) = 0
               /\ (/\ Len(given.videos) = 1
                   /\ DigitsOf(v.views) = <<>> \/ NoDayCount(v.uploadedAt)
                   /\ ~RankRejects(v, given.context)
                   /\ \A n \in 1..Len(given.context.watchHistory) :
                         given.context.watchHistory[n].id # v.id)
                     => (ret.value = <<v>> /\ Len(ret.scoredVideos) = 1)

\* A single call of extractKeywords has returned.
Extracted == op = "extractKeywords" /\ ret.returned

\* C16: extracting from the space-joined tokens of extractKeywords(t) gives
\* the same set of tokens as extractKeywords(t); empty and null texts give
\* the empty set.
C16_ExtractIdempotent ==
    Extracted =>
        /\ Range(extractKeywords(Join(ret.value, 1))) = Range(ret.value)
        /\ (given.text = Null \/ given.text = <<>>) => ret.value = <<>>

\* extractKeywords returned two tokens of a text with a capital and a
\* punctuation mark.
C16_Witness ==
    /\ Extracted
    /\ given.text = <<"A","b","#","b","1">>
    /\ ret.value = << <<"a","b">>, <<"b","1">> >>

\* extractKeywords returned from a null text.
C16_WitnessNull == Extracted /\ given.text = Null

C17_WitnessRank ==
    /\ op = "rankVideos" /\ ret.returned
    /\ Len(given.videos) = 2 /\ Len(ret.value) = 2
    /\ ret.value[1] = given.videos[2]

\* The feed function has run to its end: it returned or it raised.
Ended == pc = "done"

\* C18: a feed function returns a feed if and only if every source call it
\* issued settles: it has not returned while an issued call is pending, and
\* once every issued call has settled and the function has run to its end,
\* it has returned a feed.
C18_ReturnsIffAllSettle ==
    /\ Returned => AllSettled
    /\ (Ended /\ AllSettled) => Returned

\* The title and the channel name of v share one penalised keyword, of a
\* weight above 1.0 and of at most 2.0, and hold no other penalised keyword.
C19_SharesOneKeyword(v) ==
    LET nk == given.sources.negativeKeywords
        t == Range(extractKeywords(v.title))
        c == Range(extractKeywords(v.channelName))
        penalised == {n \in 1..Len(nk) : nk[n].kw \in t \cup c}
    IN \E n \in penalised :
          /\ penalised = {n}
          /\ nk[n].kw \in t \cap c
          /\ nk[n].w > Scale /\ nk[n].w <= 2 * Scale

\* No other test of the filter rejects v, met with the set seen.
C19_PassesOtherTests(v, seen) ==
    LET src == given.sources
        text == toLowerCase(v.title \o <<" ">> \o v.channelName)
    IN /\ v.id \notin seen
       /\ \A n \in 1..Len(src.hiddenVideos) : src.hiddenVideos[n].id # v.id
       /\ ~InShortsHistory(v)
       /\ \A n \in 1..Len(src.ngKeywords) :
             ~includes(text, toLowerCase(src.ngKeywords[n]))
       /\ \A n \in 1..Len(src.ngChannels) : src.ngChannels[n].id # v.channelId

\* Every such candidate of videos from i on is in the filtered pool out.
RECURSIVE C19_Kept(_, _, _, _)
C19_Kept(videos, i, seen, out) ==
    IF i > Len(videos) THEN TRUE
    ELSE LET v == videos[i]
         IN /\ (C19_SharesOneKeyword(v) /\ C19_PassesOtherTests(v, seen))
                  => v \in Range(out)
            /\ C19_Kept(videos, i + 1, SeenAfter(v, seen), out)

\* C19: in the filter's negative-keyword check each distinct keyword of the
\* title+channel-name text counts once: a candidate whose title and channel
\* name share one keyword of penalty w, 1.0 < w <= 2.0, and hold no other
\* penalised keyword, is not rejected.
C19_SharedKeywordCountsOnce ==
    Filtered =>
        /\ C19_Kept(given.popular, 1, SeenAtStart, ret.value.cleanPopular)
        /\ C19_Kept(given.personalized, 1,
                    SeenThrough(given.popular, 1, SeenAtStart),
                    ret.value.cleanPersonalized)

\* The ids of a list of videos.
C20_Ids(videos) == {videos[i].id : i \in 1..Len(videos)}

\* C20: in both ratio-mix feeds an id enters the seen-set when and only when
\* its candidate survives every rejection check: after the pools are
\* filtered the seen-set is its initial content plus exactly the survivors'
\* ids, so a rejected candidate does not block a later one of the same id.
C20_SeenIsSurvivors ==
    Filtered =>
        ret.value.seenIds =
            SeenAtStart \cup C20_Ids(ret.value.cleanPopular)
                        \cup C20_Ids(ret.value.cleanPersonalized)

\* The number of entries of the feed that are candidates of pool.
C21_CountFrom(pool) ==
    Cardinality({i \in 1..Len(feed) : feed[i] \in Range(pool)})

\* A ratio-mix feed returned its mix: the main feed always does, the
\* short-form feed unless the mix is empty (lines 308-310).
MixReturned ==
    /\ Returned
    /\ \/ fn = "main"
       \/ fn = "shorts" /\ Len(cleanPopular) + Len(cleanPersonalized) > 0

\* C21: the mixed feed holds exactly min(|filtered pool|, quota) videos of
\* each pool, the quotas being 20 trending / 30 personalized in the main
\* feed and 30 popular / 10 personalized in the short-form feed: a pool's
\* shortfall is not filled from the other pool, and the feed length is the
\* sum of the two minima.
C21_MixQuotas ==
    MixReturned =>
        LET quotaPopular == IF fn = "main" THEN 20 ELSE 30
            quotaPersonalized == IF fn = "main" THEN 30 ELSE 10
            fromPopular == Min(Len(cleanPopular), quotaPopular)
            fromPersonalized == Min(Len(cleanPersonalized), quotaPersonalized)
        IN /\ C21_CountFrom(cleanPopular) = fromPopular
           /\ C21_CountFrom(cleanPersonalized) = fromPersonalized
           /\ Len(feed) = fromPopular + fromPersonalized

\* The short-form feed returned a mix of a popular pool below its quota and
\* a personalized pool above its own: the feed is shorter than 40.
C21_Witness ==
    /\ MixReturned /\ fn = "shorts"
    /\ Len(cleanPopular) < 30 /\ Len(cleanPersonalized) > 10
    /\ Len(feed) = Len(cleanPopular) + 10

\* The main feed returned a mix of a trending pool above its quota and a
\* personalized pool below its own.
C21_WitnessMain ==
    /\ MixReturned /\ fn = "main"
    /\ Len(cleanPopular) > 20 /\ Len(cleanPersonalized) < 30
    /\ Len(cleanPersonalized) > 0

\* getXraiShorts has returned from its raw pools, its mix being empty.
ShortsMixEmpty ==
    /\ op = "shortsTail" /\ ret.returned
    /\ ret.cleanPopular = <<>> /\ ret.cleanPersonalized = <<>>

\* When the mix is empty and pool is not, the feed returned is not empty,
\* holds at most 20 videos, all of pool; the feed returned is empty only
\* when pool is.
C22_FallbackFrom(pool) ==
    (op = "shortsTail" /\ ret.returned) =>
        /\ (ShortsMixEmpty /\ pool # <<>>) =>
              /\ ret.value # <<>>
              /\ Len(ret.value) <= 20
              /\ Range(ret.value) \subseteq Range(pool)
        /\ ret.value = <<>> => pool = <<>>

\* C22, as stated: in the short-form feed, whenever the mix is empty and the
\* raw popular pool is not, the returned feed is non-empty, has at most 20
\* videos and holds only videos of the raw popular pool; the feed is empty
\* only when the raw popular pool is.
C22_FallbackOfRawPool ==
    (op = "shortsTail") => C22_FallbackFrom(given.popular)

\* C22, amended: ... with the raw popular pool taken without the videos of
\* the shorts history.
C22_FallbackOfUnwatchedRawPool ==
    (op = "shortsTail") =>
        C22_FallbackFrom(NotInHistory(given.popular, given.sources))

\* The mix was empty and the fallback returned 20 of the more than 20 raw
\* popular videos not in the shorts history, one raw video being in it.
C22_Witness ==
    /\ ShortsMixEmpty
    /\ given.sources.shortsHistory # <<>>
    /\ Len(NotInHistory(given.popular, given.sources)) > 20
    /\ Len(NotInHistory(given.popular, given.sources)) < Len(given.popular)
    /\ Len(ret.value) = 20

\* The place of v in the candidate list given to rankVideos.
C23_PlaceGiven(v) ==
    CHOOSE i \in 1..Len(given.videos) :
        /\ given.videos[i] = v
        /\ \A j \in 1..(i - 1) : given.videos[j] # v

\* C23: the list rankVideos returns is in non-increasing score order, and
\* two returned videos of equal score stand in the order they had in the
\* candidate list.
C23_SortedStable ==
    Ranked =>
        \A i \in 1..Len(ret.value) : \A j \in (i + 1)..Len(ret.value) :
            LET si == finalScore(ret.value[i], given.userProfile)
                sj == finalScore(ret.value[j], given.userProfile)
            IN /\ si >= sj
               /\ si = sj =>
                     C23_PlaceGiven(ret.value[i]) < C23_PlaceGiven(ret.value[j])

\* rankVideos returned two candidates of equal, positive score.
C23_Witness ==
    /\ Ranked /\ Len(ret.value) = 2
    /\ ret.value[1] # ret.value[2]
    /\ finalScore(ret.value[1], given.userProfile)
          = finalScore(ret.value[2], given.userProfile)
    /\ finalScore(ret.value[1], given.userProfile) > 0

\* The videos of the entries of sorted from i on that fewer than 3 entries
\* of their channel precede in sorted.
RECURSIVE C24_FirstThree(_, _)
C24_FirstThree(sorted, i) ==
    IF i > Len(sorted) THEN <<>>
    ELSE LET before == {j \in 1..(i - 1) :
                           sorted[j].video.channelId = sorted[i].video.channelId}
         IN (IF Cardinality(before) < 3 THEN <<sorted[i].video>> ELSE <<>>)
            \o C24_FirstThree(sorted, i + 1)

\* C24: the diversity step returns exactly the subsequence of the
\* score-sorted list that keeps, for each channelId, its first 3 entries: a
\* candidate is dropped if and only if 3 candidates of its channel precede
\* it in the sorted list, and a dropped candidate does not come back later.
C24_FirstThreePerChannel ==
    Ranked =>
        ret.value = C24_FirstThree(SortByScore(ret.scoredVideos, 1, <<>>), 1)

\* rankVideos dropped the fourth candidate of a channel and returned, after
\* its place, a candidate of another channel.
C24_Witness ==
    /\ Ranked
    /\ Len(ret.scoredVideos) = 5 /\ Len(ret.value) = 4
    /\ LET sorted == SortByScore(ret.scoredVideos, 1, <<>>)
       IN /\ sorted[4].video.channelId = sorted[1].video.channelId
          /\ sorted[4].video \notin Range(ret.value)
          /\ ret.value[4] = sorted[5].video
          /\ ret.scoredVideos # sorted

\* A single call of buildUserProfile has returned.
ProfileBuilt == op = "buildUserProfile" /\ ret.returned

\* What text contributes to keyword k at weight w: w when extracting text
\* yields k, however often k stands in text.
C25_Part(k, text, w) == IF k \in Range(extractKeywords(text)) THEN w ELSE 0

\* The sum of the contributions of the signals of src to keyword k.
C25_Weight(k, src) ==
    LET sh == src.searchHistory
        wh == src.watchHistory
        sc == src.subscribedChannels
        s[i \in 0..Len(sh)] ==
            IF i = 0 THEN 0
            ELSE s[i - 1] + C25_Part(k, sh[i], SearchWeight(i - 1))
        v[i \in 0..Len(wh)] ==
            IF i = 0 THEN 0
            ELSE v[i - 1]
                 + C25_Part(k, wh[i].title, WatchWeight(i - 1))
                 + C25_Part(k, wh[i].channelName, (8 * WatchWeight(i - 1)) \div 10)
                 + C25_Part(k, wh[i].descriptionSnippet, (5 * WatchWeight(i - 1)) \div 10)
        c[i \in 0..Len(sc)] ==
            IF i = 0 THEN 0
            ELSE c[i - 1] + C25_Part(k, sc[i].name, (15 * Scale) \div 10)
    IN s[Len(sh)] + v[Len(wh)] + c[Len(sc)]

\* The keywords the signals of src yield.
C25_Yielded(src) ==
    UNION ({Range(extractKeywords(src.searchHistory[i])) :
               i \in 1..Len(src.searchHistory)}
           \cup {Range(extractKeywords(src.watchHistory[i].title))
                 \cup Range(extractKeywords(src.watchHistory[i].channelName))
                 \cup Range(extractKeywords(src.watchHistory[i].descriptionSnippet)) :
                    i \in 1..Len(src.watchHistory)}
           \cup {Range(extractKeywords(src.subscribedChannels[i].name)) :
                    i \in 1..Len(src.subscribedChannels)})

\* C25: in the profile buildUserProfile returns, the weight of keyword k is
\* the sum of the contributions of every signal whose text yields k, each
\* signal counted once however often k stands in it: s(i) for the search
\* term at position i, v(i), 0.8*v(i) and 0.5*v(i) for the title, channel
\* name and description snippet of the watched video at position i, 1.5 for
\* a subscribed channel; s and v decrease strictly with i, and every key has
\* a weight above 0.
C25_ProfileIsSumOfSignals ==
    ProfileBuilt =>
        /\ {ret.value[n].kw : n \in 1..Len(ret.value)} = C25_Yielded(given)
        /\ \A n \in 1..Len(ret.value) :
              /\ ret.value[n].w = C25_Weight(ret.value[n].kw, given)
              /\ ret.value[n].w > 0
              /\ \A m \in 1..Len(ret.value) : m # n => ret.value[m].kw # ret.value[n].kw
        /\ \A i \in 0..MaxSignals : \A j \in (i + 1)..MaxSignals :
              /\ SearchWeight(i) > SearchWeight(j) /\ SearchWeight(j) > 0
              /\ WatchWeight(i) > WatchWeight(j) /\ WatchWeight(j) > 0

\* buildUserProfile returned a profile where one keyword sums a search term
\* holding it twice, a title, a channel name, a description snippet and a
\* subscribed channel.
C25_Witness ==
    /\ ProfileBuilt
    /\ given.searchHistory = << <<"M","u","s","i","c"," ">> \o sMusic >>
    /\ Len(given.watchHistory) = 2 /\ given.watchHistory[2].descriptionSnippet = sMusic
    /\ Len(given.subscribedChannels) = 1
    /\ \E n \in 1..Len(ret.value) :
          /\ ret.value[n].kw = toLowerCase(sMusic)
          /\ ret.value[n].w = SearchWeight(0) + WatchWeight(1)
                              + (8 * WatchWeight(1)) \div 10
                              + (5 * WatchWeight(1)) \div 10
                              + (15 * Scale) \div 10

\* The places in calls of the search calls the profile-rank feed issued, and
\* the keywords they query.
C26_SearchPlaces == {k \in 1..Len(calls) : calls[k].api = "searchVideos"}
C26_Queried == {calls[k].arg : k \in C26_SearchPlaces}

\* The calls of the pass have been issued and none has settled yet.
C26_JustIssued == \A k \in 1..Len(calls) : calls[k].status = "pending"

\* C26: the interest-search strategy issues one search call for each of
\* min(3, number of profile keywords) distinct keywords; no keyword left
\* unqueried has a strictly greater profile weight than a queried one; each
\* such call contributes at most 10 candidates.  The calls are looked at
\* when they have been issued, their contributions whenever they settle.
C26_TopThreeSearches ==
    (fn = "rank" /\ pc # "start") =>
        /\ C26_JustIssued =>
               LET userProfile == buildUserProfile(sources)
                   keys == {userProfile[n].kw : n \in 1..Len(userProfile)}
               IN /\ Cardinality(C26_SearchPlaces) = Min(3, Cardinality(keys))
                  /\ Cardinality(C26_Queried) = Cardinality(C26_SearchPlaces)
                  /\ C26_Queried \subseteq keys
                  /\ \A u \in keys \ C26_Queried : \A q \in C26_Queried :
                        ProfileGet(userProfile, u)
                            <= ProfileGet(userProfile, q)
        /\ \A k \in C26_SearchPlaces :
              Len(RankChainValue(world, calls[k], k).list) <= 10

\* The profile-rank feed returned after three searches for a profile of more
\* than three keywords, one of the searches answered with more than 10
\* videos, and an unqueried keyword entered the profile before a queried one.
C26_Witness ==
    /\ fn = "rank" /\ Returned
    /\ Cardinality(C26_SearchPlaces) = 3
    /\ LET userProfile == buildUserProfile(sources)
       IN /\ Len(userProfile) > 3
          /\ \E n \in 1..3 : userProfile[n].kw \notin C26_Queried
    /\ \E k \in C26_SearchPlaces :
          /\ calls[k].status = "fulfilled"
          /\ Len(Response(world, calls[k].api, k).videos) > 10

\* The lower-cased title+channel-name text of video holds a lower-cased NG
\* keyword of the context given.
C27_TitleOrChannelHit(video) ==
    \E n \in 1..Len(given.context.ngKeywords) :
        includes(toLowerCase(video.title \o <<" ">> \o video.channelName),
                 toLowerCase(given.context.ngKeywords[n]))

\* The candidates of videos from i on that are scored when a candidate is
\* dropped on NG-keyword grounds exactly for its title+channel-name text.
RECURSIVE C27_Scored(_, _, _)
C27_Scored(videos, i, seen) ==
    IF i > Len(videos) THEN <<>>
    ELSE LET video == videos[i]
             dropped ==
                 \/ video.id = 0 \/ video.id \in seen
                 \/ C27_TitleOrChannelHit(video)
                 \/ \E n \in 1..Len(given.context.ngChannels) :
                       given.context.ngChannels[n] = video.channelId
         IN IF dropped THEN C27_Scored(videos, i + 1, seen)
            ELSE <<video>> \o C27_Scored(videos, i + 1, seen \cup {video.id})

\* C27: rankVideos drops a candidate on NG-keyword grounds exactly when its
\* lower-cased title+channel-name text holds a lower-cased NG keyword: an NG
\* keyword that stands in the description snippet only does not remove the
\* candidate; and no returned video has a channelId of the NG-channel list.
C27_NgKeywordInTitleOrChannel ==
    Ranked =>
        /\ [n \in 1..Len(ret.scoredVideos) |-> ret.scoredVideos[n].video]
              = C27_Scored(given.videos, 1,
                           {given.context.watchHistory[n].id :
                               n \in 1..Len(given.context.watchHistory)})
        /\ \A i \in 1..Len(ret.value) : \A n \in 1..Len(given.context.ngChannels) :
              given.context.ngChannels[n] # ret.value[i].channelId

\* C28: whatever the source calls return, no video the profile-rank feed
\* returns (the head of what rankVideos returns) has an id of the watch
\* history passed in the context.
C28_NoWatchedVideoRanked ==
    (fn = "rank" /\ Returned) =>
        \A i \in 1..Len(feed) : feed[i].id \notin IdsOf(sources.watchHistory)

\* The profile-rank feed returned a non-empty feed from candidates that
\* held a video of the watch history.
C28_Witness ==
    /\ fn = "rank" /\ Returned /\ feed # <<>>
    /\ \E i \in 1..Len(allCandidates) :
          allCandidates[i].id \in IdsOf(sources.watchHistory)


\* The call the effect made for the videoId the page shows now.
CurrentFetch == fetches[Len(fetches)]

\* Every call of fetchVideoData has run to its end and no effect is due.
PlayerAtRest ==
    /\ ~ EffectPending
    /\ \A k \in 1..Len(fetches) : fetches[k].resumed

\* C29: when the route's videoId changes while the fetch of an earlier
\* videoId is in flight, then once every fetch has completed the stored
\* videoDetails and comments are those fetched for the current videoId,
\* whatever the order of the responses; a late response for an earlier
\* videoId never overwrites them.
C29_StoredIsCurrent ==
    (PlayerAtRest /\ Len(fetches) > 0) =>
        /\ player.videoDetails \in {0, player.videoId}
        /\ player.comments \in {0, player.videoId}
        /\ AllOf(CurrentFetch) = "fulfilled" =>
               /\ player.videoDetails = player.videoId
               /\ player.comments = player.videoId

\* Two fetches of the videos tab overlap: both have begun, neither has
\* run to its end.
Overlapping(i, j) ==
    /\ i < j
    /\ loads[i].tab = "videos" /\ loads[j].tab = "videos"
    /\ ~ loads[i].resumed /\ ~ loads[j].resumed

\* C30: on the channel page's videos tab, in every interleaving of
\* scroll-intersection callbacks, renders and fetch completions, no page
\* token is requested by two overlapping fetches, and no page of videos is
\* in the list more than once.
C30_NoPageTwice ==
    /\ \A i, j \in 1..Len(loads) :
           Overlapping(i, j) => loads[i].pageToken # loads[j].pageToken
    /\ \A i, j \in 1..Len(channel.videos) :
           i # j => channel.videos[i] # channel.videos[j]

====
